---------------------------- MODULE Spec2Model ----------------------------
(***************************************************************************)
(* Model of the script-driven test engine of lf-edge/eden                  *)
(* (tests/escript/go-internal/testscript): the run environment, the        *)
(* line interpreter of TestScript.run, its teardown and the deferred       *)
(* cleanup stack.                                                          *)
(*                                                                         *)
(* Strings of the program are sequences of one-character strings, so that  *)
(* splitting at '=' and prefix tests are computed, not assumed.            *)
(***************************************************************************)
EXTENDS Integers, Naturals, Sequences, FiniteSets, TLC

(***************************************************************************)
(* Bounds of the model.                                                    *)
(***************************************************************************)
MaxEnv == 4
MaxLines == 2
MaxLogLines == 3
MaxPhaseLines == 4
MaxGuards == 2
MaxBg == 1
MaxDefer == 2
MaxEval == 2
MaxDo == 2
MaxCmds == 2

(***************************************************************************)
(* State.                                                                  *)
(***************************************************************************)
VARIABLES
    pc,          \* position of the run in TestScript.run, "setup" ... "done"
    windows,     \* runtime.GOOS == "windows" (decides envvarname)
    verbose,     \* ts.t.Verbose()
    Cmds,        \* Params.Cmds: the names of the extension table
    Condition,   \* Params.Condition: "nil" or "set"
    Vars,        \* Env.Vars while setup and its hook run
    env,         \* TestScript.env
    envMap,      \* TestScript.envMap
    cd,          \* TestScript.cd (Env.Cd while the hook runs)
    lineno,      \* TestScript.lineno
    stopped,     \* TestScript.stopped
    failed,      \* the T has been marked failed (FailNow)
    panicked,    \* a panic is unwinding the run
    ctxDone,     \* ts.cancel has been called: ts.ctxt is done
    log,         \* TestScript.log, a sequence of lines
    mark,        \* TestScript.mark, counted in lines
    started,     \* TestScript.start is not the zero time
    stdout,      \* TestScript.stdout: 0 empty, n the output of line n
    stderr,      \* TestScript.stderr, likewise
    procs,       \* the subprocesses started in the background
    background,  \* TestScript.background
    deferred,    \* TestScript.deferred: the closure chain, innermost first
    dstack,      \* the part of the chain the teardown has still to call
    execCache,   \* the package-level execCache
    nguards,     \* guards of the current line evaluated so far
    flushes,     \* calls of ts.t.Log by the teardown
    calls,       \* history: the Setenv calls made so far
    registered,  \* history: the actions passed to Defer, in order
    ran,         \* history: the deferred actions called, in order
    joined,      \* history: background processes received from bg.wait
    dispatched,  \* history: the directives invoked
    lastCond,    \* history: the guard evaluated by the last step
    asked,       \* history: the predicate last handed to Params.Condition
    stopAt,      \* history: the line whose directive set the stop flag
    loopExit,    \* history: how the directive loop ended
    finalOk,     \* history: the final implicit wait returned
    limit,       \* the scripts considered have at most this many lines
    timewait,    \* the package-level timewait: 0, or a duration
    cmds,        \* the subprocesses of exec and their wait, one record each
    entries,     \* the cacheEntry of each key of a par.Cache
    evals,       \* the goroutines evaluating an exec: condition
    probes,      \* history: the search-path probes made, by program
    answers,     \* history: the results returned by execCache.Do
    annotations, \* the annotation lines printed on standard output
    Cd,          \* Env.Cd
    made,        \* the work directory of the script exists
    unpacked,    \* the archive entries written below the work directory
    hookCalls,   \* history: calls of Params.Setup
    archive,     \* TestScript.archive: its comment and its files
    testWork,    \* the -testwork flag
    TestWork,    \* Params.TestWork as the caller set it
    WorkdirRoot, \* Params.WorkdirRoot is not empty
    refCount,    \* RunT's refCount
    subtests,    \* the subtests of RunT, one per script file
    tempDir,     \* the directories below and including testTempDir
    worlds,      \* two executions of one script, without and with a sibling
    scriptUpdates, \* TestScript.scriptUpdates
    disk,        \* the script file on disk, as an archive
    writes,      \* history: calls of os.WriteFile on the script file
    line,        \* TestScript.line
    args,        \* the words parse returned for it
    stdin,       \* TestScript.stdin
    rep,         \* a call of RepeatableAttempt
    up           \* a call of UploadFile

cfgVars == <<windows, verbose, Cmds, Condition>>
envVars == <<Vars, env, envMap, calls>>
logVars == <<log, mark, started>>
procVars == <<procs, background, joined>>
deferVars == <<deferred, registered>>
guardVars == <<nguards, lastCond, asked>>
setupVars == <<Cd, made, unpacked, hookCalls, archive>>
workVars == <<testWork, TestWork, WorkdirRoot>>
rootVars == <<refCount, subtests, tempDir>>
updVars == <<scriptUpdates, disk, writes>>
lineVars == <<line, args>>
utilVars == <<stdin, rep, up>>
moreVars == <<workVars, utilVars, rootVars, worlds, updVars, lineVars>>
runVars == <<pc, windows, verbose, Cmds, Condition, Vars, env, envMap, cd,
             lineno, stopped, failed, panicked, ctxDone, log, mark, started,
             stdout, stderr, procs, background, deferred, dstack, execCache,
             nguards, flushes, calls, registered, ran, joined, dispatched,
             lastCond, asked, stopAt, loopExit, finalOk, limit,
             annotations, setupVars, moreVars>>
oneVars == <<pc, windows, verbose, Cmds, Condition, Vars, env, envMap, cd,
             lineno, stopped, failed, panicked, ctxDone, log, mark, started,
             stdout, stderr, procs, background, deferred, dstack, execCache,
             nguards, flushes, calls, registered, ran, joined, dispatched,
             lastCond, asked, stopAt, loopExit, finalOk, limit,
             annotations, setupVars>>
cmdVars == <<timewait, cmds>>
parVars == <<entries, evals, probes, answers>>

vars == <<pc, windows, verbose, Cmds, Condition, Vars, env, envMap, cd,
          lineno, stopped, failed, panicked, ctxDone, log, mark, started,
          stdout, stderr, procs, background, deferred, dstack, execCache,
          nguards, flushes, calls, registered, ran, joined, dispatched,
          lastCond, asked, stopAt, loopExit, finalOk, limit, timewait, cmds,
          entries, evals, probes, answers, annotations, Cd, made, unpacked,
          hookCalls, archive, testWork, TestWork, WorkdirRoot, refCount,
          subtests, tempDir, worlds, scriptUpdates, disk, writes, line, args,
          stdin, rep, up>>

(***************************************************************************)
(* Strings.                                                                *)
(***************************************************************************)
EQ == "="

\* strings.IndexByte(s, '='): the first position of '=' in s, 0 when absent
IndexEq(s) ==
    IF \E i \in 1..Len(s) : s[i] = EQ
    THEN CHOOSE i \in 1..Len(s) : s[i] = EQ /\ \A j \in 1..(i-1) : s[j] # EQ
    ELSE 0

ToLowerChar(c) ==
    CASE c = "X" -> "x"
      [] c = "Y" -> "y"
      [] c = "W" -> "w"
      [] OTHER -> c

\* envvarname: the key as it is compared (lower case on Windows only)
envvarname(k) ==
    IF windows THEN [i \in 1..Len(k) |-> ToLowerChar(k[i])] ELSE k

(***************************************************************************)
(* Env.Getenv: scan Vars from the end, split each entry at its first '='.  *)
(***************************************************************************)
RECURSIVE GetenvFrom(_, _, _)
GetenvFrom(vs, key, i) ==
    IF i = 0 THEN <<>>
    ELSE LET e == vs[i]
             p == IndexEq(e)
         IN  IF p > 0 /\ envvarname(SubSeq(e, 1, p - 1)) = key
             THEN SubSeq(e, p + 1, Len(e))
             ELSE GetenvFrom(vs, key, i - 1)

EnvGetenv(vs, key) == GetenvFrom(vs, envvarname(key), Len(vs))

\* the key test of Env.Setenv
InvalidKey(key) == key = <<>> \/ IndexEq(key) # 0

(***************************************************************************)
(* TestScript.setup, lines 370-375: envMap from the ordered list.          *)
(***************************************************************************)
MapPut(m, k, v) ==
    [x \in DOMAIN m \cup {k} |-> IF x = k THEN v ELSE m[x]]

RECURSIVE BuildEnvMap(_, _, _)
BuildEnvMap(vs, i, m) ==
    IF i > Len(vs) THEN m
    ELSE LET e == vs[i]
             p == IndexEq(e)
         IN  IF p > 0
             THEN BuildEnvMap(vs, i + 1,
                      MapPut(m, envvarname(SubSeq(e, 1, p - 1)),
                                SubSeq(e, p + 1, Len(e))))
             ELSE BuildEnvMap(vs, i + 1, m)

EmptyMap == [x \in {} |-> <<>>]

\* TestScript.Getenv
TsGetenv(m, key) ==
    IF envvarname(key) \in DOMAIN m THEN m[envvarname(key)] ELSE <<>>

(***************************************************************************)
(* Inputs of the environment operations.                                   *)
(***************************************************************************)
Keys == { <<"X">>, <<"x">>, <<>>, <<"X", "=", "Y">> }
Values == { <<"1">>, <<"2">> }
\* entries a setup hook writes into Vars itself (Vars is an exported field)
RawEntries == { <<"X", "=", "1">>, <<"N">> }
\* the variables seeded by setup: WORK first, then the rest
Seed == << <<"W", "=", "w">>, <<"/", "=", "/">> >>


(***************************************************************************)
(* The transcript: ts.log is a sequence of lines [k, n, x]: k the kind of  *)
(* line, n the script line (or process) it is about, x a count: for a      *)
(* phase heading the elapsed-time suffixes it carries, for captured output *)
(* whether the text contains "::error file".  ts.mark is always set at the *)
(* end of a line, so it is counted in lines.                               *)
(***************************************************************************)
L(k, n, x) == [k |-> k, n |-> n, x |-> x]

\* rewind with the test of the mode inverted
rewindWhenVerbose(lg) == IF verbose THEN SubSeq(lg, 1, mark) ELSE lg

\* rewind, lines 383-387
rewind(lg) == IF ~verbose THEN SubSeq(lg, 1, mark) ELSE lg

\* markTime that leaves the heading alone in quiet mode
markTimeVerboseOnly(lg, st) ==
    IF verbose /\ mark > 0 /\ st /\ mark <= Len(lg)
    THEN [lg EXCEPT ![mark] = L(@.k, @.n, @.x + 1)]
    ELSE lg

\* markTime without the test of ts.start
markTimeWhateverStart(lg, st) ==
    IF mark > 0 /\ mark <= Len(lg)
    THEN [lg EXCEPT ![mark] = L(@.k, @.n, @.x + 1)]
    ELSE lg

\* markTime, lines 390-398: the suffix goes before the newline at mark-1,
\* that is, onto the line that ends at mark
markTime(lg, st) ==
    IF mark > 0 /\ st /\ mark <= Len(lg)
    THEN [lg EXCEPT ![mark] = L(@.k, @.n, @.x + 1)]
    ELSE lg

\* a filter that takes every line of captured standard output for an
\* annotation
removeEveryOutput(lg) == SelectSeq(lg, LAMBDA l : l.k # "out")

\* removeGHAnnotation, lines 795-816
HasAnnotation(l) == l.k = "out" /\ l.x = 1

removeGHAnnotation(lg) ==
    LET F[i \in 0..Len(lg)] ==
            IF i = 0 THEN <<>>
            ELSE IF HasAnnotation(lg[i]) THEN F[i - 1]
                 ELSE Append(F[i - 1], lg[i])
    IN  F[Len(lg)]

\* PASS written without looking at ts.stopped
PassAlways == TRUE

\* the condition of lines 538-541 under which PASS is written
PassAllowed == ~stopped

HasPass(lg) == \E i \in 1..Len(lg) : lg[i].k = "PASS"
PassCount(lg) == Cardinality({i \in 1..Len(lg) : lg[i].k = "PASS"})

\* a FailNow that ends the run on the spot, with no deferred function run
GoexitEndsRun(p) == "done"

\* a run that has not deferred applyScriptUpdates
GoexitSkipsUpdates(p) == IF p \in {"bgwait", "done", "deferred"} THEN p ELSE "deferred0"

(***************************************************************************)
(* The deferred functions of run that FailNow (runtime.Goexit) or a panic  *)
(* at position p still runs: applyScriptUpdates (line 434) once setup has  *)
(* returned, before that the deferred chain (line 422), and within the     *)
(* chain the rest of it.                                                   *)
(***************************************************************************)
GoexitTarget(p) ==
    CASE p \in {"setup", "hook"} -> "deferred0"
      [] p \in {"line", "guard", "finalwait"} -> "updates"
      [] p = "updates" -> "deferred0"
      [] OTHER -> p

(***************************************************************************)
(* Defer, lines 652-658: the new closure calls f and then, by a defer of   *)
(* its own, the old chain.                                                 *)
(***************************************************************************)
Defer(chain, f) == <<f>> \o chain

(***************************************************************************)
(* Background processes.  A process is [st, done, sig]: st its state       *)
(* ("run", "ok", "fail"), done whether its wait channel has been closed,   *)
(* sig the callers that sent it an interrupt.                              *)
(***************************************************************************)
BgIds(bgs) == {bgs[j].id : j \in 1..Len(bgs)}

\* a teardown that waits for the members without interrupting them
InterruptNone(ps, bgs, who) == ps

\* interruptProcess on every member of ts.background, lines 404-406, 530-532
InterruptAll(ps, bgs, who) ==
    [i \in DOMAIN ps |->
        IF i \in BgIds(bgs) THEN [ps[i] EXCEPT !.sig = @ \cup {who}] ELSE ps[i]]

AllDone(bgs) == \A j \in 1..Len(bgs) : procs[bgs[j].id].done

\* the status test of waitBackground(true) for one member
Unexpected(b) ==
    IF procs[b.id].st = "ok" THEN b.neg ELSE (ctxDone \/ ~b.neg)

\* the first member whose status is not the expected one, 0 when none
FirstBad(bgs) ==
    IF \E j \in 1..Len(bgs) : Unexpected(bgs[j])
    THEN CHOOSE j \in 1..Len(bgs) :
             Unexpected(bgs[j]) /\ \A i \in 1..(j - 1) : ~Unexpected(bgs[i])
    ELSE 0

BgLines(bgs, upto) == [j \in 1..upto |-> L("bg", bgs[j].id, 0)]


(***************************************************************************)
(* Condition guards, TestScript.condition (lines 586-633).                 *)
(***************************************************************************)
HasPrefix(s, p) == Len(s) >= Len(p) /\ SubSeq(s, 1, Len(p)) = p
TrimPrefix(s, p) == SubSeq(s, Len(p) + 1, Len(s))

cShort == <<"s", "h", "o", "r", "t">>
cNet == <<"n", "e", "t">>
cLink == <<"l", "i", "n", "k">>
cSymlink == <<"s", "y", "m", "l", "i", "n", "k">>
cLinux == <<"l", "i", "n", "u", "x">>
cWindows == <<"w", "i", "n", "d", "o", "w", "s">>
cDarwin == <<"d", "a", "r", "w", "i", "n">>
cAmd64 == <<"a", "m", "d", "6", "4">>
cArm64 == <<"a", "r", "m", "6", "4">>
pExec == <<"e", "x", "e", "c", ":">>
pStdout == <<"s", "t", "d", "o", "u", "t", ":">>
pStderr == <<"s", "t", "d", "e", "r", "r", ":">>
cExecP == pExec \o <<"p">>
cStdoutA == pStdout \o <<"a">>
cStderrA == pStderr \o <<"a">>
cStdoutBad == pStdout \o <<"(">>
cExecBare == <<"e", "x", "e", "c">>
cFoo == <<"f", "o", "o">>
cBar == <<"b", "a", "r">>

\* the predicates a guard of the model may name
Conds == {cShort, cNet, cLink, cSymlink, cLinux, cWindows, cAmd64, cArm64,
          cExecP, cStdoutA, cStderrA, cStdoutBad, cExecBare, cFoo, cBar}

GOOS == IF windows THEN cWindows ELSE cLinux
GOARCH == cAmd64
KnownOS == {cLinux, cWindows, cDarwin}
KnownArch == {cAmd64, cArm64}

\* regexp.Compile of "(?m)" + pattern
Compiles(pattern) == pattern # <<"(">>

\* the predicates the registered resolver knows; for any other it returns
\* an error
Recognized == {cFoo}

\* one result of a condition: out is "value" (ok, nil), "error" (an error
\* is returned) or "fatal" (Fatalf was called); ask tells whether
\* Params.Condition was called; cache is execCache afterwards
R(ok, out, ask, cache) == [ok |-> ok, out |-> out, ask |-> ask, cache |-> cache]

\* a resolver step that takes what it does not know for false
condResolverLenient(cond) ==
    IF Condition # "nil"
    THEN IF cond \in Recognized
         THEN {R(b, "value", TRUE, execCache) : b \in BOOLEAN}
         ELSE {R(FALSE, "value", TRUE, execCache)}
    ELSE {R(FALSE, "value", FALSE, execCache)}

\* lines 627-631: the predicate is no built-in one; Params.Condition
\* decides, and without it the line is fatal
condResolver(cond) ==
    IF Condition # "nil"
    THEN IF cond \in Recognized
         THEN {R(b, "value", TRUE, execCache) : b \in BOOLEAN}
         ELSE {R(FALSE, "error", TRUE, execCache)}
    ELSE {R(FALSE, "fatal", FALSE, execCache)}

\* a default case without the checks of lines 598-626
condDefaultAsksFirst(cond) == condResolver(cond)

\* the default case of the switch, lines 597-632
condDefault(cond) ==
    IF cond \in KnownArch \cup KnownOS
    THEN {R(FALSE, "value", FALSE, execCache)}
    ELSE IF HasPrefix(cond, pExec)
    THEN LET prog == TrimPrefix(cond, pExec)
         IN  IF prog \in DOMAIN execCache
             THEN {R(execCache[prog], "value", FALSE, execCache)}
             ELSE {R(b, "value", FALSE, MapPut(execCache, prog, b)) :
                      b \in BOOLEAN}
    ELSE IF HasPrefix(cond, pStdout) \/ HasPrefix(cond, pStderr)
    THEN LET isOut == HasPrefix(cond, pStdout)
             pattern == IF isOut THEN TrimPrefix(cond, pStdout)
                        ELSE TrimPrefix(cond, pStderr)
             source == IF isOut THEN stdout ELSE stderr
         IN  IF ~Compiles(pattern)
             THEN {R(FALSE, "fatal", FALSE, execCache)}
             ELSE IF source = 0
             THEN {R(FALSE, "value", FALSE, execCache)}
             ELSE {R(b, "value", FALSE, execCache) : b \in BOOLEAN}
    ELSE condResolver(cond)

\* the results condition(cond) can have in the current state
condition(cond) ==
    IF cond \in {cShort, cNet, cLink, cSymlink}
    THEN {R(b, "value", FALSE, execCache) : b \in BOOLEAN}
    ELSE IF cond \in {GOOS, GOARCH}
    THEN {R(TRUE, "value", FALSE, execCache)}
    ELSE condDefault(cond)

\* what the guard and lookup part of the current line came to: out is "none"
\* before any of it, "value", "error" or "fatal" after a predicate, "missing"
\* (lines 482-484), "bang" (lines 507-509) or "unknown" (lines 517-519)
NoCond == [cond |-> <<>>, want |-> TRUE, out |-> "none", ok |-> TRUE]
NoAsk == <<"-">>

(***************************************************************************)
(* Directive lookup, lines 513-519: the built-in table first, then         *)
(* Params.Cmds.                                                            *)
(***************************************************************************)
scriptCmds == {"cd", "env", "exec", "stop", "wait"}

\* a lookup that tries Params.Cmds before the built-in table
LookupExtFirst(name) ==
    IF name \in Cmds THEN [tbl |-> "ext", name |-> name]
    ELSE IF name \in scriptCmds THEN [tbl |-> "builtin", name |-> name]
    ELSE [tbl |-> "none", name |-> name]

LookupCmd(name) ==
    IF name \in scriptCmds THEN [tbl |-> "builtin", name |-> name]
    ELSE IF name \in Cmds THEN [tbl |-> "ext", name |-> name]
    ELSE [tbl |-> "none", name |-> name]

\* first words of the directive lines of the model
Names == {"cd", "exec", "stop", "wait", "ext", "nope"}

D(name, tbl, neg) == [line |-> lineno, tbl |-> tbl, name |-> name, neg |-> neg]


(***************************************************************************)
(* The transcript as text.  A line of ts.log stands for the characters the *)
(* program wrote for it: captured output is the marker line "[stdout]" or  *)
(* "[stderr]" followed by what the command wrote, a line logged by an      *)
(* extension carries its own text.                                         *)
(***************************************************************************)
NL == "\n"
CR == "\r"
mStdout == <<"[", "s", "t", "d", "o", "u", "t", "]">>
mStderr == <<"[", "s", "t", "d", "e", "r", "r", "]">>

\* strings.TrimSuffix
HasSuffix(s, x) == Len(s) >= Len(x) /\ SubSeq(s, Len(s) - Len(x) + 1, Len(s)) = x
TrimSuffix(s, x) == IF HasSuffix(s, x) THEN SubSeq(s, 1, Len(s) - Len(x)) ELSE s

\* Logf, lines 668-672: one trailing newline of the format is cut, and a
\* newline written after the text
Logf(text) == TrimSuffix(text, <<NL>>) \o <<NL>>

LineText(l) ==
    CASE l.k = "text" -> l.x
      [] l.k = "out" -> Logf(mStdout \o <<NL>> \o
                             (IF l.x = 1 THEN <<":", NL>> ELSE <<"o", NL>>))
      [] l.k = "err" -> Logf(mStderr \o <<NL, "e", NL>>)
      [] l.k = "blank" -> <<NL>>
      [] l.k = "head" -> IF l.x = 0 THEN <<"#", NL>> ELSE <<"#", "t", NL>>
      [] l.k = "echo" -> <<">", NL>>
      [] l.k = "FAIL" -> <<"F", NL>>
      [] l.k = "PASS" -> <<"P", NL>>
      [] OTHER -> <<"m", NL>>

\* ts.log.String()
LogString(lg) ==
    LET F[i \in 0..Len(lg)] ==
            IF i = 0 THEN <<>> ELSE F[i - 1] \o LineText(lg[i])
    IN  F[Len(lg)]

\* strings.LastIndex(s, sub) + 1: the number of characters before the last
\* occurrence of sub in s, plus one; 0 when sub does not occur
LastIndexPlus1(s, sub) ==
    LET At(i) == i + Len(sub) - 1 <= Len(s) /\ SubSeq(s, i, i + Len(sub) - 1) = sub
        Occ == {i \in 1..Len(s) : At(i)}
    IN  IF Occ = {} THEN 0 ELSE CHOOSE i \in Occ : \A j \in Occ : j <= i

\* strings.ReplaceAll(s, "\n", "%0A") and then of "\r" by "%0D"
ReplaceAll(s, c, by) ==
    LET F[i \in 0..Len(s)] ==
            IF i = 0 THEN <<>>
            ELSE F[i - 1] \o (IF s[i] = c THEN by ELSE <<s[i]>>)
    IN  F[Len(s)]

\* an annotation that keeps carriage returns as they are
EscapeNewlinesOnly(s) == ReplaceAll(s, NL, <<"%", "0", "A">>)

\* lines 834-835
Escape(s) ==
    ReplaceAll(ReplaceAll(s, NL, <<"%", "0", "A">>), CR, <<"%", "0", "D">>)

\* an annotation numbered by the directives run so far, not by the lines read
addGHAnnotationCountsDirectives(text, n) ==
    [line |-> Len(dispatched),
     msg |-> Escape(SubSeq(text,
                           LastIndexPlus1(text, <<NL>> \o mStdout \o <<NL>>) + 1,
                           Len(text)))]

\* addGHAnnotation, lines 820-838: the line printed on standard output,
\* given the text of the transcript and ts.lineno
addGHAnnotation(text, n) ==
    LET lastIndexOfStdout == LastIndexPlus1(text, <<NL>> \o mStdout \o <<NL>>)
    IN  [line |-> n,
         msg |-> Escape(SubSeq(text, lastIndexOfStdout + 1, Len(text)))]

\* a Fatalf that rewinds the transcript before it logs the failure
FatalRewinds(lg, n) ==
    /\ stopped' = TRUE
    /\ log' = Append(rewind(lg), L("FAIL", n, 0))
    /\ \E text \in {LogString(Append(rewind(lg), L("FAIL", n, 0)))} :
          annotations' = Append(annotations, addGHAnnotation(text, n))
    /\ failed' = TRUE
    /\ ctxDone' = TRUE
    /\ pc' = GoexitTarget(pc)

(***************************************************************************)
(* Fatalf, lines 841-847: stopped, the FAIL line, FailNow (which marks the *)
(* T failed and ends the goroutine, running the deferred functions of      *)
(* run) and, on the way out, ts.cancel.  lg is the transcript so far and n *)
(* the line number the FAIL line carries.                                  *)
(***************************************************************************)
Fatal(lg, n) ==
    /\ stopped' = TRUE
    /\ log' = Append(lg, L("FAIL", n, 0))
    /\ \E text \in {LogString(Append(lg, L("FAIL", n, 0)))} :
          annotations' = Append(annotations, addGHAnnotation(text, n))
    /\ failed' = TRUE
    /\ ctxDone' = TRUE
    /\ pc' = GoexitTarget(pc)

Fatalf == Fatal(log, lineno)

(***************************************************************************)
(* The script file: a txtar archive, a comment and a list of files.        *)
(***************************************************************************)
File(name, data) == [name |-> name, data |-> data]

NoArchive == [comment |-> "", files |-> <<>>]
\* no call of the helper is in progress
NoCall == [at |-> "none"]

NoUpdates == [n \in {} |-> 0]

\* a script with two files
Script0 == [comment |-> "c", files |-> <<File("a", 0), File("b", 0)>>]

(***************************************************************************)
(* The package-level execCache (line 35) is shared by every script of the  *)
(* test binary, and scripts run in parallel: the goroutines that evaluate  *)
(* an exec: condition, and the entries of the cache they share.            *)
(***************************************************************************)
Progs == { <<"p">>, <<"q">> }
ExecConds == {pExec \o p : p \in Progs}
Evaluators == 1..MaxEval

\* a cacheEntry: done, mu (0 free, else its holder) and result
NoEntry == [present |-> FALSE, done |-> FALSE, mu |-> 0, result |-> FALSE]

\* a goroutine between two evaluations, n evaluations made
Idle(n) == [pc |-> "idle", prog |-> <<>>, n |-> n]

(***************************************************************************)
(* The initial state: a TestScript as RunT builds it (lines 239-250).      *)
(***************************************************************************)
InitRun ==
    /\ pc = "setup"
    /\ windows \in BOOLEAN
    /\ verbose \in BOOLEAN
    /\ Cmds = {"ext", "stop"}
    /\ Condition \in {"nil", "set"}
    /\ Vars = <<>>
    /\ env = <<>>
    /\ envMap = EmptyMap
    /\ cd = ""
    /\ lineno = 0
    /\ stopped = FALSE
    /\ failed = FALSE
    /\ panicked = FALSE
    /\ ctxDone = FALSE
    /\ log = <<>>
    /\ mark = 0
    /\ started = FALSE
    /\ stdout = 0
    /\ stderr = 0
    /\ procs = <<>>
    /\ background = <<>>
    /\ deferred = <<>>
    /\ dstack = <<>>
    /\ execCache = [x \in {} |-> FALSE]
    /\ nguards = 0
    /\ flushes = 0
    /\ calls = <<>>
    /\ registered = <<>>
    /\ ran = <<>>
    /\ joined = {}
    /\ dispatched = <<>>
    /\ lastCond = NoCond
    /\ asked = NoAsk
    /\ stopAt = 0
    /\ loopExit = "none"
    /\ finalOk = FALSE
    /\ limit \in {MaxLines, MaxLogLines, MaxPhaseLines}
    /\ timewait \in {0, 1}
    /\ cmds = <<>>
    /\ entries = [p \in Progs |-> NoEntry]
    /\ evals = [g \in Evaluators |-> Idle(0)]
    /\ probes = [p \in Progs |-> 0]
    /\ answers = {}
    /\ annotations = <<>>
    /\ Cd = ""
    /\ made = FALSE
    /\ unpacked = {}
    /\ hookCalls = 0
    /\ archive = NoArchive
    /\ scriptUpdates = NoUpdates
    /\ writes = 0
    /\ stdin = 0
    /\ rep = NoCall
    /\ up = NoCall

\* the rest of the state when one script with two files is run alone, with
\* no flag set
InitAlone ==
    /\ testWork = FALSE
    /\ TestWork = FALSE
    /\ WorkdirRoot = FALSE
    /\ refCount = 1
    /\ subtests = <<>>
    /\ tempDir = {}
    /\ worlds = <<>>
    /\ disk = Script0
    /\ line = <<>>
    /\ args = <<>>

Init == InitRun /\ InitAlone

(***************************************************************************)
(* setup, lines 307-365: the work directory, the seeded variables, the     *)
(* archive parsed and unpacked, and then the call of the hook; each step   *)
(* before the call may fail through ts.Check, and the steps before it are  *)
(* then done and the ones after it are not.                                *)
(***************************************************************************)
FileNames(a) == {a.files[i].name : i \in 1..Len(a.files)}

\* lines 356-361 after k files: the names written so far
Unpacked(a, k) == {a.files[i].name : i \in 1..k}

\* a setup that calls the hook before it unpacks the archive
HookBeforeUnpack(a) == {}

\* what is below the work directory when the hook is called (line 364)
UnpackedAtHook(a) == Unpacked(a, Len(a.files))

SetupBegin ==
    /\ pc = "setup"
    /\ \/ /\ pc' = "hook"
          /\ made' = TRUE
          /\ Vars' = Seed
          /\ Cd' = "work"
          /\ cd' = "work"
          /\ archive' = disk
          /\ unpacked' = UnpackedAtHook(disk)
          /\ hookCalls' = hookCalls + 1
          /\ UNCHANGED <<limit, cmdVars, parVars, annotations, moreVars, windows, verbose, Cmds, Condition, env, envMap, lineno,
                 stopped, failed, panicked, ctxDone, log, mark, started,
                 stdout, stderr, procs, background, deferred, dstack,
                 execCache, nguards, flushes, calls, registered, ran,
                 joined, dispatched, lastCond, asked, stopAt, loopExit,
                 finalOk>>
       \/ /\ \E step \in {"mkdir", "parse", "write"} :
                /\ made' = (step # "mkdir")
                /\ Vars' = IF step = "mkdir" THEN Vars ELSE Seed
                /\ Cd' = IF step = "mkdir" THEN Cd ELSE "work"
                /\ cd' = IF step = "mkdir" THEN cd ELSE "work"
                /\ archive' = IF step = "write" THEN disk ELSE archive
                /\ IF step = "write"
                   THEN /\ disk.files # <<>>
                        /\ \E k \in 0..(Len(disk.files) - 1) :
                              unpacked' = Unpacked(disk, k)
                   ELSE unpacked' = unpacked
          /\ Fatalf
          /\ UNCHANGED <<limit, cmdVars, parVars, hookCalls, moreVars, windows, verbose, Cmds, Condition, env, envMap,
                 lineno, panicked, mark, started, stdout, stderr, procs,
                 background, deferred, dstack, execCache, nguards,
                 flushes, calls, registered, ran, joined, dispatched,
                 lastCond, asked, stopAt, loopExit, finalOk>>

(***************************************************************************)
(* The setup hook Params.Setup (line 364) and what it may do with its Env. *)
(***************************************************************************)
\* Env.Setenv, lines 88-93
EnvSetenv(vs, key, value) == Append(vs, key \o <<EQ>> \o value)

HookSetenv ==
    /\ pc = "hook"
    /\ Len(Vars) < MaxEnv
    /\ \E key \in Keys, value \in Values :
          /\ calls' = Append(calls, [api |-> "Env", key |-> key])
          /\ IF InvalidKey(key)
             THEN /\ panicked' = TRUE
                  /\ pc' = GoexitTarget(pc)
                  /\ Vars' = Vars
             ELSE /\ Vars' = EnvSetenv(Vars, key, value)
                  /\ UNCHANGED <<panicked, pc>>
    /\ UNCHANGED <<limit, cmdVars, parVars, annotations, setupVars, moreVars, windows, verbose, Cmds, Condition, env, envMap, cd,
                 lineno, stopped, failed, ctxDone, log, mark, started,
                 stdout, stderr, procs, background, deferred, dstack,
                 execCache, nguards, flushes, registered, ran, joined,
                 dispatched, lastCond, asked, stopAt, loopExit, finalOk>>

\* the hook writes Env.Vars itself
HookAppend ==
    /\ pc = "hook"
    /\ Len(Vars) < MaxEnv
    /\ \E e \in RawEntries : Vars' = Append(Vars, e)
    /\ UNCHANGED <<limit, cmdVars, parVars, annotations, setupVars, moreVars, pc, windows, verbose, Cmds, Condition, env, envMap, cd,
                 lineno, stopped, failed, panicked, ctxDone, log, mark,
                 started, stdout, stderr, procs, background, deferred,
                 dstack, execCache, nguards, flushes, calls, registered,
                 ran, joined, dispatched, lastCond, asked, stopAt,
                 loopExit, finalOk>>

\* Env.Defer, lines 70-72
HookDefer ==
    /\ pc = "hook"
    /\ Len(registered) < MaxDefer
    /\ deferred' = Defer(deferred, Len(registered) + 1)
    /\ registered' = Append(registered, Len(registered) + 1)
    /\ UNCHANGED <<limit, cmdVars, parVars, annotations, setupVars, moreVars, pc, windows, verbose, Cmds, Condition, Vars, env, envMap,
                 cd, lineno, stopped, failed, panicked, ctxDone, log,
                 mark, started, stdout, stderr, procs, background, dstack,
                 execCache, nguards, flushes, calls, ran, joined,
                 dispatched, lastCond, asked, stopAt, loopExit, finalOk>>

\* the hook returns an error: ts.Check(ts.params.Setup(env))
HookFail ==
    /\ pc = "hook"
    /\ Fatalf
    /\ UNCHANGED <<limit, cmdVars, parVars, setupVars, moreVars, windows, verbose, Cmds, Condition, Vars, env, envMap, cd,
                 lineno, panicked, mark, started, stdout, stderr, procs,
                 background, deferred, dstack, execCache, nguards,
                 flushes, calls, registered, ran, joined, dispatched,
                 lastCond, asked, stopAt, loopExit, finalOk>>

(***************************************************************************)
(* The end of setup (lines 366-376) and the start of run (lines 427-434):  *)
(* env and envMap from the hook's Vars, the environment logged with -v or  *)
(* -testwork, applyScriptUpdates deferred.                                 *)
(***************************************************************************)
\* a setup that keeps the directory it set before the hook ran
SetupKeepsCd(own, hook) == own

\* line 366: ts.cd = env.Cd
SetupCd(own, hook) == hook

\* abbrev, lines 638-646, on the dump of the environment: 1 when its first
\* line shows the actual work directory, 0 when it reads WORK=$WORK
abbrev(flag, param) == IF flag \/ param THEN 1 ELSE 0

SetupFinish ==
    /\ pc = "hook"
    /\ cd' = SetupCd(cd, Cd)
    /\ env' = Vars
    /\ envMap' = BuildEnvMap(Vars, 1, EmptyMap)
    /\ IF testWork \/ verbose
       THEN /\ log' = <<L("env", 0, abbrev(testWork, TestWork)), L("blank", 0, 0)>>
            /\ mark' = 2
       ELSE UNCHANGED <<log, mark>>
    /\ pc' = "line"
    /\ UNCHANGED <<limit, cmdVars, parVars, annotations, setupVars, moreVars, windows, verbose, Cmds, Condition, Vars, lineno,
                 stopped, failed, panicked, ctxDone, started, stdout,
                 stderr, procs, background, deferred, dstack, execCache,
                 nguards, flushes, calls, registered, ran, joined,
                 dispatched, lastCond, asked, stopAt, loopExit, finalOk>>

(***************************************************************************)
(* TestScript.Setenv, lines 880-883, called by a directive.                *)
(***************************************************************************)
TsSetenvList(e, key, value) == Append(e, key \o <<EQ>> \o value)
TsSetenvMap(m, key, value) == MapPut(m, envvarname(key), value)

TsSetenv ==
    /\ pc = "line"
    /\ Len(env) < MaxEnv
    /\ \E key \in Keys, value \in Values :
          /\ calls' = Append(calls, [api |-> "ts", key |-> key])
          /\ env' = TsSetenvList(env, key, value)
          /\ envMap' = TsSetenvMap(envMap, key, value)
    /\ UNCHANGED <<limit, cmdVars, parVars, annotations, setupVars, moreVars, pc, windows, verbose, Cmds, Condition, Vars, cd, lineno,
                 stopped, failed, panicked, ctxDone, log, mark, started,
                 stdout, stderr, procs, background, deferred, dstack,
                 execCache, nguards, flushes, registered, ran, joined,
                 dispatched, lastCond, asked, stopAt, loopExit, finalOk>>

(***************************************************************************)
(* The environment of a run on its own: the hook fills Vars, setup turns   *)
(* it into env and envMap, directives call Setenv.                         *)
(***************************************************************************)
NextEnv ==
    \/ SetupBegin
    \/ HookSetenv
    \/ HookAppend
    \/ SetupFinish
    \/ TsSetenv

SpecEnv == Init /\ [][NextEnv]_vars


(***************************************************************************)
(* The directive loop of run, lines 439-528.  The script is an input: its  *)
(* lines, and the words of a line, are drawn as the loop reads them.       *)
(***************************************************************************)
\* leaving the loop (script == "" or break): lines 530-532 interrupt the
\* background processes before the blocking wait
LeaveLoop(how) ==
    /\ loopExit' = how
    /\ procs' = InterruptAll(procs, background, "run")
    /\ pc' = "finalwait"

\* script == "": the loop ends
EndOfScript ==
    /\ pc = "line"
    /\ LeaveLoop("eof")
    /\ lastCond' = NoCond
    /\ asked' = NoAsk
    /\ UNCHANGED <<limit, cmdVars, parVars, annotations, setupVars, moreVars, windows, verbose, Cmds, Condition, Vars, env, envMap, cd,
                 lineno, stopped, failed, panicked, ctxDone, log, mark,
                 started, stdout, stderr, background, deferred, dstack,
                 execCache, nguards, flushes, calls, registered, ran,
                 joined, dispatched, stopAt, finalOk>>

\* a line starting with '#': lines 450-465
PhaseLine ==
    /\ pc = "line"
    /\ lineno < limit
    /\ lineno' = lineno + 1
    /\ LET closing == Len(log) > mark
           lg == IF closing THEN markTime(rewind(log), started) ELSE log
       IN  /\ log' = Append(lg, L("head", lineno + 1, 0))
           /\ mark' = Len(lg) + 1
    /\ started' = TRUE
    /\ lastCond' = NoCond
    /\ asked' = NoAsk
    /\ UNCHANGED <<limit, cmdVars, parVars, annotations, setupVars, moreVars, pc, windows, verbose, Cmds, Condition, Vars, env, envMap,
                 cd, stopped, failed, panicked, ctxDone, stdout, stderr,
                 procs, background, deferred, dstack, execCache, nguards,
                 flushes, calls, registered, ran, joined, dispatched,
                 stopAt, loopExit, finalOk>>

\* a line without words: lines 468-471
BlankLine ==
    /\ pc = "line"
    /\ lineno < limit
    /\ lineno' = lineno + 1
    /\ lastCond' = NoCond
    /\ asked' = NoAsk
    /\ UNCHANGED <<limit, cmdVars, parVars, annotations, setupVars, moreVars, pc, windows, verbose, Cmds, Condition, Vars, env, envMap,
                 cd, stopped, failed, panicked, ctxDone, log, mark,
                 started, stdout, stderr, procs, background, deferred,
                 dstack, execCache, nguards, flushes, calls, registered,
                 ran, joined, dispatched, stopAt,
                 loopExit, finalOk>>

\* parse meets the end of the line inside quotes: lines 917-919
UnterminatedLine ==
    /\ pc = "line"
    /\ lineno < limit
    /\ lineno' = lineno + 1
    /\ Fatal(log, lineno + 1)
    /\ lastCond' = NoCond
    /\ asked' = NoAsk
    /\ UNCHANGED <<limit, cmdVars, parVars, setupVars, moreVars, windows, verbose, Cmds, Condition, Vars, env, envMap, cd,
                 panicked, mark, started, stdout, stderr, procs,
                 background, deferred, dstack, execCache, nguards,
                 flushes, calls, registered, ran, joined, dispatched,
                 stopAt, loopExit, finalOk>>

\* a line with words is echoed: lines 473-475
CommandLine ==
    /\ pc = "line"
    /\ lineno < limit
    /\ lineno' = lineno + 1
    /\ log' = Append(log, L("echo", lineno + 1, 0))
    /\ nguards' = 0
    /\ lastCond' = NoCond
    /\ asked' = NoAsk
    /\ pc' = "guard"
    /\ UNCHANGED <<limit, cmdVars, parVars, annotations, setupVars, moreVars, windows, verbose, Cmds, Condition, Vars, env, envMap, cd,
                 stopped, failed, panicked, ctxDone, mark, started,
                 stdout, stderr, procs, background, deferred, dstack,
                 execCache, flushes, calls, registered, ran, joined,
                 dispatched, stopAt, loopExit, finalOk>>

\* a guard that forgets the "!" of [!cond]
AfterGuardIgnoresWant(ok, want) == IF ~ok THEN "line" ELSE "guard"

(***************************************************************************)
(* One round of the guard loop, lines 478-499: args[0] is "[cond]" or      *)
(* "[!cond]"; with no word after it the line is fatal before the predicate *)
(* is looked at (lines 482-484).                                           *)
(***************************************************************************)
\* lines 495-498: where the loop goes with the value of a predicate
AfterGuard(ok, want) == IF ok # want THEN "line" ELSE "guard"

EvalGuard ==
    /\ pc = "guard"
    /\ nguards < MaxGuards
    /\ \/ /\ Fatalf
          /\ lastCond' = [NoCond EXCEPT !.out = "missing"]
          /\ nguards' = 0
          /\ UNCHANGED <<execCache, asked>>
       \/ \E cond \in Conds, want \in BOOLEAN : \E r \in condition(cond) :
             /\ execCache' = r.cache
             /\ asked' = IF r.ask THEN cond ELSE NoAsk
             /\ lastCond' = [cond |-> cond, want |-> want,
                             out |-> r.out, ok |-> r.ok]
             /\ IF r.out # "value"
                THEN /\ Fatalf
                     /\ nguards' = 0
                ELSE /\ pc' = AfterGuard(r.ok, want)
                     /\ nguards' = IF pc' = "guard" THEN nguards + 1 ELSE 0
                     /\ UNCHANGED <<stopped, log, failed, ctxDone, annotations>>
    /\ UNCHANGED <<limit, cmdVars, parVars, setupVars, moreVars, windows, verbose, Cmds, Condition, Vars, env, envMap, cd,
                 lineno, panicked, mark, started, stdout, stderr, procs,
                 background, deferred, dstack, flushes, calls, registered,
                 ran, joined, dispatched, stopAt, loopExit, finalOk>>

(***************************************************************************)
(* The rest of the line, lines 503-527: the negation marker, the lookup    *)
(* and the directive.  The directives themselves are the built-in table's  *)
(* (cd, exec, stop, wait) and an extension's.                              *)
(***************************************************************************)
\* "!" with nothing after it: lines 504-510
BangAlone ==
    /\ pc = "guard"
    /\ Fatalf
    /\ lastCond' = [NoCond EXCEPT !.out = "bang"]
    /\ nguards' = 0
    /\ asked' = NoAsk
    /\ UNCHANGED <<limit, cmdVars, parVars, setupVars, moreVars, windows, verbose, Cmds, Condition, Vars, env, envMap, cd,
                 lineno, panicked, mark, started, stdout, stderr, procs,
                 background, deferred, dstack, execCache, flushes, calls, registered, ran, joined, dispatched,
                 stopAt, loopExit, finalOk>>

\* a name in neither table: lines 517-519
DoUnknown ==
    /\ pc = "guard"
    /\ \E name \in Names : LookupCmd(name).tbl = "none"
    /\ Fatalf
    /\ lastCond' = [NoCond EXCEPT !.out = "unknown"]
    /\ nguards' = 0
    /\ asked' = NoAsk
    /\ UNCHANGED <<limit, cmdVars, parVars, setupVars, moreVars, windows, verbose, Cmds, Condition, Vars, env, envMap, cd,
                 lineno, panicked, mark, started, stdout, stderr, procs,
                 background, deferred, dstack, execCache, flushes, calls, registered, ran, joined, dispatched,
                 stopAt, loopExit, finalOk>>

\* stop: sets the stop flag, and the loop breaks (lines 523-527)
DoStop ==
    /\ pc = "guard"
    /\ \E name \in Names, neg \in BOOLEAN :
          /\ LookupCmd(name) = [tbl |-> "builtin", name |-> "stop"]
          /\ dispatched' = Append(dispatched, D(name, "builtin", neg))
          /\ IF neg
             THEN /\ Fatalf
                  /\ UNCHANGED <<stopAt, loopExit, procs>>
             ELSE /\ stopped' = TRUE
                  /\ log' = Append(log, L("msg", lineno, 0))
                  /\ stopAt' = lineno
                  /\ LeaveLoop("break")
                  /\ UNCHANGED <<failed, ctxDone, annotations>>
    /\ lastCond' = NoCond
    /\ nguards' = 0
    /\ asked' = NoAsk
    /\ UNCHANGED <<limit, cmdVars, parVars, setupVars, moreVars, windows, verbose, Cmds, Condition, Vars, env, envMap, cd,
                 lineno, panicked, mark, started, stdout, stderr,
                 background, deferred, dstack, execCache, flushes, calls, registered, ran, joined, finalOk>>

\* cd: moves the cursor directory, or fails when the directory is missing
DoCd ==
    /\ pc = "guard"
    /\ \E name \in Names, neg \in BOOLEAN :
          /\ LookupCmd(name) = [tbl |-> "builtin", name |-> "cd"]
          /\ dispatched' = Append(dispatched, D(name, "builtin", neg))
          /\ \/ /\ ~neg
                /\ cd' = IF cd = "work" THEN "sub" ELSE "work"
                /\ pc' = "line"
                /\ UNCHANGED <<stopped, log, failed, ctxDone, annotations>>
             \/ /\ Fatalf
                /\ UNCHANGED cd
    /\ lastCond' = NoCond
    /\ nguards' = 0
    /\ asked' = NoAsk
    /\ UNCHANGED <<limit, cmdVars, parVars, setupVars, moreVars, windows, verbose, Cmds, Condition, Vars, env, envMap,
                 lineno, panicked, mark, started, stdout, stderr, procs,
                 background, deferred, dstack, execCache, flushes, calls, registered, ran, joined, stopAt,
                 loopExit, finalOk>>

\* TestScript.Exec, lines 772-782, as the exec directive calls it: res is
\* how the command ended ("ok", "fail", or "notfound" when buildExecCmd
\* cannot resolve it), io what it wrote: nothing, a line on standard
\* output that reads as a workflow annotation, or both streams
ExecLog(lg, so, se, ann, res) ==
    lg \o (IF so # 0 THEN <<L("out", lineno, ann)>> ELSE <<>>)
       \o (IF se # 0 THEN <<L("err", lineno, 0)>> ELSE <<>>)
       \o (IF res # "ok" THEN <<L("msg", lineno, 0)>> ELSE <<>>)

\* what the command writes when it runs: io "none" nothing, "ann" a line on
\* standard output that reads as a workflow annotation, "both" a line on
\* each stream; the output of the command of line n is written n
CmdWrites(io, n) ==
    [so |-> IF io = "none" THEN 0 ELSE n, se |-> IF io = "both" THEN n ELSE 0]

\* TestScript.exec, lines 676-695: "", "" when buildExecCmd has no command
\* to start, else what the two builders collected
exec(res, io, n) ==
    IF res = "notfound" THEN [so |-> 0, se |-> 0] ELSE CmdWrites(io, n)

\* Exec that keeps the older capture when the command wrote nothing
ExecKeepsOlder(old, got) == IF got = 0 THEN old ELSE got

\* Exec, line 774: ts.stdout and ts.stderr are assigned what exec returned,
\* whatever they held
Exec(old, got) == got

\* ReadFile, lines 865-877: "stdout" and "stderr" are the captures, any
\* other name is a file below ts.cd
ReadFile(file, out, err) ==
    IF file = "stdout" THEN [from |-> "capture", data |-> out]
    ELSE IF file = "stderr" THEN [from |-> "capture", data |-> err]
    ELSE [from |-> "file", data |-> file]

\* Exec called by a directive, which takes its error for fatal or not
ExecEffects(res, io, fatal) ==
    LET got == exec(res, io, lineno)
        so == Exec(stdout, got.so)
        se == Exec(stderr, got.se)
        ann == IF io = "ann" THEN 1 ELSE 0
        lg == ExecLog(log, so, se, ann, res)
    IN  /\ stdout' = so
        /\ stderr' = se
        /\ IF fatal
           THEN Fatal(lg, lineno)
           ELSE /\ log' = lg
                /\ pc' = "line"
                /\ UNCHANGED <<stopped, failed, ctxDone, annotations>>

ExecStep(name, neg, res, io) ==
    /\ LookupCmd(name) = [tbl |-> "builtin", name |-> "exec"]
    /\ dispatched' = Append(dispatched, D(name, "builtin", neg))
    /\ ExecEffects(res, io, (res = "ok") = neg)

DoExec ==
    /\ pc = "guard"
    /\ \E name \in Names, neg \in BOOLEAN, res \in {"ok", "fail", "notfound"},
          io \in {"none", "ann", "both"} : ExecStep(name, neg, res, io)
    /\ lastCond' = NoCond
    /\ nguards' = 0
    /\ asked' = NoAsk
    /\ UNCHANGED <<limit, cmdVars, parVars, setupVars, moreVars, windows, verbose, Cmds, Condition, Vars, env, envMap, cd,
                 lineno, panicked, mark, started, procs, background,
                 deferred, dstack, execCache, flushes, calls,
                 registered, ran, joined, stopAt, loopExit, finalOk>>

\* exec ... &: the process is started (execBackground, lines 699-712) and
\* joins ts.background, or cannot be started
NewProc == [st |-> "run", done |-> FALSE, sig |-> {}]

DoExecBg ==
    /\ pc = "guard"
    /\ Len(procs) < MaxBg
    /\ \E name \in Names, neg \in BOOLEAN :
          /\ LookupCmd(name) = [tbl |-> "builtin", name |-> "exec"]
          /\ dispatched' = Append(dispatched, D(name, "builtin", neg))
          /\ \/ /\ procs' = Append(procs, NewProc)
                /\ background' =
                       Append(background, [id |-> Len(procs) + 1, neg |-> neg])
                /\ stdout' = 0
                /\ stderr' = 0
                /\ pc' = "line"
                /\ UNCHANGED <<stopped, log, failed, ctxDone, annotations>>
             \/ /\ Fatalf
                /\ UNCHANGED <<procs, background, stdout, stderr>>
    /\ lastCond' = NoCond
    /\ nguards' = 0
    /\ asked' = NoAsk
    /\ UNCHANGED <<limit, cmdVars, parVars, setupVars, moreVars, windows, verbose, Cmds, Condition, Vars, env, envMap, cd,
                 lineno, panicked, mark, started, deferred, dstack,
                 execCache, flushes, calls, registered, ran,
                 joined, stopAt, loopExit, finalOk>>

\* waitBackground(true): every member is received from its wait channel
\* and reported, in order; the first unexpected status is fatal and leaves
\* ts.background as it is; otherwise the set is emptied
WaitedLog == log \o BgLines(background, Len(background))

WaitFatal ==
    /\ Fatal(log \o BgLines(background, FirstBad(background)), lineno)
    /\ joined' = joined \cup BgIds(SubSeq(background, 1, FirstBad(background)))
    /\ UNCHANGED <<background, stdout, stderr>>

WaitDone ==
    /\ joined' = joined \cup BgIds(background)
    /\ background' = <<>>
    /\ stdout' = 0
    /\ stderr' = 0

\* wait
DoWait ==
    /\ pc = "guard"
    /\ \E name \in Names, neg \in BOOLEAN :
          /\ LookupCmd(name) = [tbl |-> "builtin", name |-> "wait"]
          /\ dispatched' = Append(dispatched, D(name, "builtin", neg))
          /\ IF neg
             THEN /\ Fatalf
                  /\ UNCHANGED <<background, joined, stdout, stderr>>
             ELSE /\ AllDone(background)
                  /\ IF FirstBad(background) # 0
                     THEN WaitFatal
                     ELSE /\ WaitDone
                          /\ log' = WaitedLog
                          /\ pc' = "line"
                          /\ UNCHANGED <<stopped, failed, ctxDone, annotations>>
    /\ lastCond' = NoCond
    /\ nguards' = 0
    /\ asked' = NoAsk
    /\ UNCHANGED <<limit, cmdVars, parVars, setupVars, moreVars, windows, verbose, Cmds, Condition, Vars, env, envMap, cd,
                 lineno, panicked, mark, started, procs, deferred, dstack,
                 execCache, flushes, calls, registered, ran,
                 stopAt, loopExit, finalOk>>

\* an extension directive: what it does is its own; it may register a
\* cleanup with ts.Defer (lines 652-658) or end the run with ts.Fatalf
DoExt ==
    /\ pc = "guard"
    /\ \E name \in Names, neg \in BOOLEAN :
          /\ LookupCmd(name).tbl = "ext"
          /\ dispatched' = Append(dispatched, D(name, "ext", neg))
          /\ \/ /\ pc' = "line"
                /\ UNCHANGED <<deferred, registered, stopped, log, failed, ctxDone, annotations>>
             \/ /\ Len(registered) < MaxDefer
                /\ deferred' = Defer(deferred, Len(registered) + 1)
                /\ registered' = Append(registered, Len(registered) + 1)
                /\ pc' = "line"
                /\ UNCHANGED <<stopped, log, failed, ctxDone, annotations>>
             \/ /\ Fatalf
                /\ UNCHANGED <<deferred, registered>>
    /\ lastCond' = NoCond
    /\ nguards' = 0
    /\ asked' = NoAsk
    /\ UNCHANGED <<limit, cmdVars, parVars, setupVars, moreVars, windows, verbose, Cmds, Condition, Vars, env, envMap, cd,
                 lineno, panicked, mark, started, stdout, stderr, procs,
                 background, dstack, execCache, flushes, calls,
                 ran, joined, stopAt, loopExit, finalOk>>

\* an extension directive that runs a command with ts.Exec (lines 772-782)
\* and hands its error to ts.Check, or goes on without looking at it
ExtExec ==
    /\ pc = "guard"
    /\ \E name \in Names, neg \in BOOLEAN, res \in {"ok", "fail", "notfound"},
          io \in {"none", "ann", "both"}, check \in BOOLEAN :
          /\ LookupCmd(name).tbl = "ext"
          /\ dispatched' = Append(dispatched, D(name, "ext", neg))
          /\ ExecEffects(res, io, check /\ res # "ok")
    /\ lastCond' = NoCond
    /\ nguards' = 0
    /\ asked' = NoAsk
    /\ UNCHANGED <<limit, cmdVars, parVars, setupVars, moreVars, windows, verbose, Cmds, Condition, Vars, env, envMap, cd,
                 lineno, panicked, mark, started, procs, background,
                 deferred, dstack, execCache, flushes, calls,
                 registered, ran, joined, stopAt, loopExit, finalOk>>

(***************************************************************************)
(* After the loop, lines 533-541: the implicit final wait, the last phase  *)
(* closed, PASS.                                                           *)
(***************************************************************************)
FinalWait ==
    /\ pc = "finalwait"
    /\ AllDone(background)
    /\ IF FirstBad(background) # 0
       THEN /\ WaitFatal
            /\ UNCHANGED <<started, finalOk>>
       ELSE /\ WaitDone
            /\ finalOk' = TRUE
            /\ LET lg == markTime(rewind(WaitedLog), started)
               IN  log' = IF PassAllowed
                          THEN Append(removeGHAnnotation(lg), L("PASS", lineno, 0))
                          ELSE lg
            /\ started' = FALSE
            /\ pc' = "updates"
            /\ UNCHANGED <<stopped, failed, ctxDone, annotations>>
    /\ UNCHANGED <<limit, cmdVars, parVars, setupVars, moreVars, windows, verbose, Cmds, Condition, Vars, env, envMap, cd,
                 lineno, panicked, mark, procs, deferred, dstack,
                 execCache, nguards, flushes, calls, registered, ran,
                 dispatched, lastCond, asked, stopAt, loopExit>>

(***************************************************************************)
(* The deferred functions of run, in the order they are called: the        *)
(* archive updates (line 434), the deferred chain (lines 422-424), the     *)
(* background drain and the flush of the transcript (lines 400-421).       *)
(***************************************************************************)
\* what an update may hold: 1 is stored as it is, 2 and 3 hold a line that
\* reads as a file marker; 2 can be quoted and 3 cannot
Contents == {1, 2, 3}
NeedsQuote(data) == data \in {2, 3}
QuoteFails(data) == data = 3
Quote(data) == data + 10

\* lines 560-570: the data stored for an update
Stored(content) == IF NeedsQuote(content) THEN Quote(content) ELSE content

\* the update stops at the first entry of the name
UpdateFirstEntry(files, name, data) == [i \in 1..Len(files) |-> IF files[i].name = name /\ (\A j \in 1..(i - 1) : files[j].name # name) THEN File(name, data) ELSE files[i]]

\* lines 557-571: every entry of the name gets the data
UpdateEntries(files, name, data) == [i \in 1..Len(files) |-> IF files[i].name = name THEN File(name, data) ELSE files[i]]

\* an update whose name is in no entry is passed over
MissingIgnored(files, name) == FALSE

\* lines 556-576: found stays false
Missing(files, name) == \A i \in 1..Len(files) : files[i].name # name

\* one round of the loop of line 555: for the first entry of the name the
\* data is quoted if it needs to be, and t.Fatal ends the function when it
\* cannot be (every later entry of the name would get the same data)
UpdateOne(a, name, content) ==
    IF Missing(a.files, name) THEN [archive |-> a, end |-> "panic"]
    ELSE IF NeedsQuote(content) /\ QuoteFails(content)
         THEN [archive |-> a, end |-> "fatal"]
    ELSE [archive |-> [a EXCEPT !.files = UpdateEntries(a.files, name, Stored(content))], end |-> "next"]

\* the orders in which range may visit the keys of a map
Orders(S) == {o \in [1..Cardinality(S) -> S] : \A i, j \in 1..Cardinality(S) : o[i] = o[j] => i = j}

RECURSIVE UpdateAll(_, _, _, _)
UpdateAll(a, updates, order, k) ==
    IF k > Cardinality(DOMAIN updates) THEN [archive |-> a, end |-> "write"]
    ELSE LET r == UpdateOne(a, order[k], updates[order[k]])
         IN IF r.end # "next" THEN r
            ELSE UpdateAll(r.archive, updates, order, k + 1)

\* txtar.Format of the archive, as the content of the script file
Format(a) == a

\* os.WriteFile that fails leaves the file as it was or truncated
Truncated == [comment |-> "", files |-> <<>>]

\* applyScriptUpdates, lines 551-583
ApplyScriptUpdates ==
    /\ pc = "updates"
    /\ pc' = "deferred0"
    /\ IF DOMAIN scriptUpdates = {}
       THEN UNCHANGED <<archive, disk, writes, log, failed, panicked>>
       ELSE \E order \in Orders(DOMAIN scriptUpdates) :
            \E r \in {UpdateAll(archive, scriptUpdates, order, 1)} :
               /\ archive' = r.archive
               /\ CASE r.end = "panic" ->
                          /\ panicked' = TRUE
                          /\ UNCHANGED <<disk, writes, log, failed>>
                    [] r.end = "fatal" ->
                          /\ failed' = TRUE
                          /\ UNCHANGED <<disk, writes, log, panicked>>
                    [] OTHER ->
                          /\ writes' = writes + 1
                          /\ \/ /\ disk' = Format(r.archive)
                                /\ log' = Append(log, L("updated", lineno, 0))
                                /\ UNCHANGED <<failed, panicked>>
                             \/ /\ disk' \in {disk, Truncated}
                                /\ failed' = TRUE
                                /\ UNCHANGED <<log, panicked>>
    /\ UNCHANGED <<limit, cmdVars, parVars, annotations, Cd, made, unpacked, hookCalls,
                 workVars, utilVars, rootVars, worlds, lineVars, scriptUpdates,
                 windows, verbose, Cmds, Condition, Vars, env, envMap, cd,
                 lineno, stopped, ctxDone, mark,
                 started, stdout, stderr, procs, background, deferred,
                 dstack, execCache, nguards, flushes, calls, registered,
                 ran, joined, dispatched, lastCond, asked, stopAt,
                 loopExit, finalOk>>

\* ts.deferred() is called: line 423
EnterDeferred ==
    /\ pc = "deferred0"
    /\ dstack' = deferred
    /\ pc' = "deferred"
    /\ UNCHANGED <<limit, cmdVars, parVars, annotations, setupVars, moreVars, windows, verbose, Cmds, Condition, Vars, env, envMap, cd,
                 lineno, stopped, failed, panicked, ctxDone, log, mark,
                 started, stdout, stderr, procs, background, deferred,
                 execCache, nguards, flushes, calls, registered, ran,
                 joined, dispatched, lastCond, asked, stopAt, loopExit,
                 finalOk>>

\* a chain whose closure calls the older part after f, without defer: an
\* f that ends in Fatalf takes the older part with it
RestOfChainNoDefer(chain, how) == IF how = "fatal" THEN <<>> ELSE Tail(chain)

\* what is left of the chain once its first action has returned, or has
\* ended in Fatalf: "defer old()" (line 655) calls the older part in
\* every case
RestOfChain(chain, how) == Tail(chain)

\* the first action of the chain runs; it returns or calls ts.Fatalf
RunDeferred ==
    /\ pc = "deferred"
    /\ dstack # <<>>
    /\ ran' = Append(ran, Head(dstack))
    /\ \E how \in {"ok", "fatal"} :
          /\ dstack' = RestOfChain(dstack, how)
          /\ IF how = "fatal"
             THEN Fatalf
             ELSE UNCHANGED <<stopped, log, failed, ctxDone, pc, annotations>>
    /\ UNCHANGED <<limit, cmdVars, parVars, setupVars, moreVars, panicked, windows, verbose, Cmds, Condition, Vars, env, envMap, cd,
                 lineno, mark, started, stdout, stderr, procs, background,
                 deferred, execCache, nguards, flushes, calls, registered,
                 joined, dispatched, lastCond, asked, stopAt, loopExit,
                 finalOk>>

\* the chain is through; the first deferred function of run starts by
\* interrupting what is left in ts.background, lines 404-406
EndDeferred ==
    /\ pc = "deferred"
    /\ dstack = <<>>
    /\ procs' = InterruptAll(procs, background, "teardown")
    /\ pc' = "bgwait"
    /\ UNCHANGED <<limit, cmdVars, parVars, annotations, setupVars, moreVars, windows, verbose, Cmds, Condition, Vars, env, envMap, cd,
                 lineno, stopped, failed, panicked, ctxDone, log, mark,
                 started, stdout, stderr, background, deferred, dstack,
                 execCache, nguards, flushes, calls, registered, ran,
                 joined, dispatched, lastCond, asked, stopAt, loopExit,
                 finalOk>>

\* hasFailed, lines 544-549, for a T that has Failed
hasFailed == failed

\* lines 407-420: the members of ts.background are waited for (and
\* reported with -v or after a failure), the last phase gets its time and
\* the transcript is handed to t.Log
TeardownWait ==
    /\ pc = "bgwait"
    /\ AllDone(background)
    /\ joined' = joined \cup BgIds(background)
    /\ background' = <<>>
    /\ IF verbose \/ hasFailed
       THEN /\ log' = markTime(WaitedLog, started)
            /\ stdout' = 0
            /\ stderr' = 0
       ELSE /\ log' = markTime(log, started)
            /\ UNCHANGED <<stdout, stderr>>
    /\ started' = FALSE
    /\ flushes' = flushes + 1
    /\ pc' = "done"
    /\ UNCHANGED <<limit, cmdVars, parVars, annotations, setupVars, moreVars, windows, verbose, Cmds, Condition, Vars, env, envMap, cd,
                 lineno, stopped, failed, panicked, ctxDone, mark, procs,
                 deferred, dstack, execCache, nguards, calls, registered,
                 ran, dispatched, lastCond, asked, stopAt, loopExit,
                 finalOk>>

(***************************************************************************)
(* The background processes and the goroutine that waits for each.         *)
(***************************************************************************)
\* the process ends and cmd.Wait returns: the wait channel is closed
ProcExit ==
    /\ \E i \in 1..Len(procs), how \in {"ok", "fail"} :
          /\ procs[i].st = "run"
          /\ procs' = [procs EXCEPT ![i] = [@ EXCEPT !.st = how, !.done = TRUE]]
    /\ UNCHANGED <<limit, cmdVars, parVars, annotations, setupVars, moreVars, pc, windows, verbose, Cmds, Condition, Vars, env, envMap,
                 cd, lineno, stopped, failed, panicked, ctxDone, log,
                 mark, started, stdout, stderr, background, deferred,
                 dstack, execCache, nguards, flushes, calls, registered,
                 ran, joined, dispatched, lastCond, asked, stopAt,
                 loopExit, finalOk>>

\* ctxWait, lines 754-756: ts.ctxt is done first; the process is sent an
\* interrupt and the wait channel is closed without waiting for it
BgCancel ==
    /\ ctxDone
    /\ \E i \in 1..Len(procs) :
          /\ ~procs[i].done
          /\ procs' = [procs EXCEPT
                          ![i] = [@ EXCEPT !.sig = @ \cup {"ctx"}, !.done = TRUE]]
    /\ UNCHANGED <<limit, cmdVars, parVars, annotations, setupVars, moreVars, pc, windows, verbose, Cmds, Condition, Vars, env, envMap,
                 cd, lineno, stopped, failed, panicked, ctxDone, log,
                 mark, started, stdout, stderr, background, deferred,
                 dstack, execCache, nguards, flushes, calls, registered,
                 ran, joined, dispatched, lastCond, asked, stopAt,
                 loopExit, finalOk>>

(***************************************************************************)
(* One run of one script.                                                  *)
(***************************************************************************)
Next ==
    \/ SetupBegin
    \/ HookDefer
    \/ HookFail
    \/ SetupFinish
    \/ EndOfScript
    \/ PhaseLine
    \/ BlankLine
    \/ UnterminatedLine
    \/ CommandLine
    \/ EvalGuard
    \/ BangAlone
    \/ DoUnknown
    \/ DoStop
    \/ DoCd
    \/ DoExec
    \/ DoExecBg
    \/ DoWait
    \/ DoExt
    \/ FinalWait
    \/ ApplyScriptUpdates
    \/ EnterDeferred
    \/ RunDeferred
    \/ EndDeferred
    \/ TeardownWait
    \/ ProcExit
    \/ BgCancel

\* a build for GOOS = linux, run with no timewait, on scripts of at most
\* MaxLines lines
InitLinux == Init /\ ~windows /\ timewait = 0 /\ limit = MaxLines

Spec == InitLinux /\ [][Next]_vars

(***************************************************************************)
(* The exec: condition evaluated by several goroutines at once             *)
(* (condition, lines 602-609), step by step through par.Cache.Do.          *)
(***************************************************************************)
\* line 603: the key of the cache is the program name after the prefix
ExecProg(cond) == TrimPrefix(cond, pExec)

\* the condition probes the search path itself on every evaluation
CondProbesDirectly(e) == "probe"

\* line 604: the condition hands the probe to execCache.Do as a closure,
\* so the evaluation starts at Do's lookup of the entry
CondExecEnters(e) == "load"

CondExec(g) ==
    /\ evals[g].pc = "idle"
    /\ evals[g].n < MaxDo
    /\ \E cond \in ExecConds :
          evals' = [evals EXCEPT ![g] = [pc |-> CondExecEnters(evals[g]),
                                         prog |-> ExecProg(cond),
                                         n |-> evals[g].n]]
    /\ UNCHANGED <<runVars, cmdVars, entries, probes, answers>>

\* Do: c.m.Load(key), and c.m.LoadOrStore(key, new(cacheEntry)) on a miss;
\* whoever stores first, every caller goes on with the one stored entry
DoLoad(g) ==
    /\ evals[g].pc = "load"
    /\ IF entries[evals[g].prog].present
       THEN /\ evals' = [evals EXCEPT ![g].pc = "check"]
            /\ UNCHANGED entries
       ELSE /\ evals' = [evals EXCEPT ![g].pc = "loadorstore"]
            /\ UNCHANGED entries
    /\ UNCHANGED <<runVars, cmdVars, probes, answers>>

DoLoadOrStore(g) ==
    /\ evals[g].pc = "loadorstore"
    /\ entries' = [entries EXCEPT ![evals[g].prog].present = TRUE]
    /\ evals' = [evals EXCEPT ![g].pc = "check"]
    /\ UNCHANGED <<runVars, cmdVars, probes, answers>>

\* Do: if atomic.LoadUint32(&e.done) == 0 { e.mu.Lock() ...
DoCheckDone(g) ==
    /\ evals[g].pc = "check"
    /\ evals' = [evals EXCEPT
                    ![g].pc = IF entries[evals[g].prog].done THEN "return"
                              ELSE "lock"]
    /\ UNCHANGED <<runVars, cmdVars, entries, probes, answers>>

DoLock(g) ==
    /\ evals[g].pc = "lock"
    /\ entries[evals[g].prog].mu = 0
    /\ entries' = [entries EXCEPT ![evals[g].prog].mu = g]
    /\ evals' = [evals EXCEPT ![g].pc = "recheck"]
    /\ UNCHANGED <<runVars, cmdVars, probes, answers>>

\* Do: the second test of e.done, under the lock
DoRecheck(g) ==
    /\ evals[g].pc = "recheck"
    /\ evals' = [evals EXCEPT
                    ![g].pc = IF entries[evals[g].prog].done THEN "unlock"
                              ELSE "probe"]
    /\ UNCHANGED <<runVars, cmdVars, entries, probes, answers>>

\* e.result = f(): the closure of lines 604-607 looks the program up in
\* the search path of its script, which finds it or not
DoProbe(g) ==
    /\ evals[g].pc = "probe"
    /\ \E found \in BOOLEAN :
          entries' = [entries EXCEPT ![evals[g].prog].result = found]
    /\ probes' = [probes EXCEPT ![evals[g].prog] = @ + 1]
    /\ evals' = [evals EXCEPT ![g].pc = "storedone"]
    /\ UNCHANGED <<runVars, cmdVars, answers>>

\* Do: atomic.StoreUint32(&e.done, 1)
DoStoreDone(g) ==
    /\ evals[g].pc = "storedone"
    /\ entries' = [entries EXCEPT ![evals[g].prog].done = TRUE]
    /\ evals' = [evals EXCEPT ![g].pc = "unlock"]
    /\ UNCHANGED <<runVars, cmdVars, probes, answers>>

\* Do: e.mu.Unlock()
DoUnlock(g) ==
    /\ evals[g].pc = "unlock"
    /\ entries' = [entries EXCEPT ![evals[g].prog].mu = 0]
    /\ evals' = [evals EXCEPT ![g].pc = "return"]
    /\ UNCHANGED <<runVars, cmdVars, probes, answers>>

\* Do: return e.result, which line 608 returns as the condition's value
DoReturn(g) ==
    /\ evals[g].pc = "return"
    /\ answers' = answers \cup
                     {<<evals[g].prog, entries[evals[g].prog].result>>}
    /\ evals' = [evals EXCEPT ![g] = Idle(evals[g].n + 1)]
    /\ UNCHANGED <<runVars, cmdVars, entries, probes>>

NextExecCache ==
    \/ \E g \in Evaluators : CondExec(g)
    \/ \E g \in Evaluators : DoLoad(g)
    \/ \E g \in Evaluators : DoLoadOrStore(g)
    \/ \E g \in Evaluators : DoCheckDone(g)
    \/ \E g \in Evaluators : DoLock(g)
    \/ \E g \in Evaluators : DoRecheck(g)
    \/ \E g \in Evaluators : DoProbe(g)
    \/ \E g \in Evaluators : DoStoreDone(g)
    \/ \E g \in Evaluators : DoUnlock(g)
    \/ \E g \in Evaluators : DoReturn(g)

\* one test binary: the configuration is not what the cache depends on
InitExecCache ==
    Init /\ ~windows /\ ~verbose /\ Condition = "nil" /\ timewait = 0
         /\ limit = MaxLines

SpecExecCache == InitExecCache /\ [][NextExecCache]_vars

(***************************************************************************)
(* The subprocesses of a run and their contexts: buildExecCmd, exec,       *)
(* execBackground, ctxWait and interruptProcess (lines 676-768), with the  *)
(* run's scope ts.ctxt cancelled by ts.cancel (line 842).  A record of     *)
(* cmds is one command: fg foreground, timed its context is a child of     *)
(* ts.ctxt with a deadline, expired the deadline has passed, st the        *)
(* process, sig the signals sent to it, ret what its wait returned; late,   *)
(* caught and live are history: the scope was done when the command was    *)
(* started, became done while the foreground process ran, and the process  *)
(* was running when the wait returned the cancellation error.              *)
(***************************************************************************)
\* the context the command was built with is done
CmdCtxDone(c) == ctxDone \/ (c.timed /\ c.expired)

\* the context its ctxWait selects on: exec hands over the context of
\* buildExecCmd (line 693); execBackground drops it (line 700) and the
\* goroutine of the directive waits on ts.ctxt
WaitCtxDone(c) == IF c.fg THEN CmdCtxDone(c) ELSE ctxDone

Pending(c) == c.ret = "none"

\* interruptProcess without the fallback
interruptOnly(sig) == IF windows THEN sig ELSE sig \cup {"interrupt"}

\* interruptProcess, lines 761-768: os.Interrupt, and Kill where Signal
\* returns an error (os.Interrupt is not implemented on Windows)
interruptProcess(sig) == sig \cup {IF windows THEN "kill" ELSE "interrupt"}

NewCmd(fg, st, ret) ==
    [fg |-> fg, timed |-> timewait # 0, expired |-> FALSE, st |-> st,
     sig |-> {}, ret |-> ret, late |-> ctxDone, caught |-> FALSE,
     live |-> FALSE]

\* buildExecCmd and cmd.Start for exec (lines 677-692) and for
\* execBackground (lines 700-711): the program is not found; or the
\* command was built by exec.CommandContext with a context that is done,
\* and Start returns its error; or the process runs
ExecStart(fg) ==
    /\ Len(cmds) < MaxCmds
    /\ \A i \in 1..Len(cmds) : cmds[i].fg => ~Pending(cmds[i])
    /\ \E found \in BOOLEAN :
          cmds' = Append(cmds,
                     IF ~found THEN NewCmd(fg, "none", "lookup")
                     ELSE IF timewait # 0 /\ ctxDone
                     THEN NewCmd(fg, "none", "start")
                     ELSE NewCmd(fg, "run", "none"))
    /\ UNCHANGED <<runVars, timewait, parVars>>

\* the process ends, by itself or by a signal it was sent, with status 0
\* ("ok") or not; a killed process has no status 0
ProcEnds(i) ==
    /\ cmds[i].st = "run"
    /\ \E how \in {"ok", "fail"} :
          /\ "kill" \in cmds[i].sig => how = "fail"
          /\ cmds' = [cmds EXCEPT ![i].st = how]
    /\ UNCHANGED <<runVars, timewait, parVars>>

\* the deadline of the context made by line 728 passes, unless exec has
\* returned and its deferred cancel (lines 681-683) has released it
TimerExpires(i) ==
    /\ cmds[i].timed
    /\ ~cmds[i].expired
    /\ cmds[i].st # "none"
    /\ cmds[i].fg => Pending(cmds[i])
    /\ cmds' = [cmds EXCEPT ![i].expired = TRUE,
                            ![i].caught = cmds[i].fg /\ cmds[i].st = "run"]
    /\ UNCHANGED <<runVars, timewait, parVars>>

\* exec.CommandContext: the process is killed once the context of the
\* command is done
CommandContextKill(i) ==
    /\ cmds[i].timed
    /\ CmdCtxDone(cmds[i])
    /\ cmds[i].st = "run"
    /\ "kill" \notin cmds[i].sig
    /\ cmds' = [cmds EXCEPT ![i].sig = @ \cup {"kill"}]
    /\ UNCHANGED <<runVars, timewait, parVars>>

\* ts.cancel(), deferred by Fatalf (line 842): the scope of the run is done
Cancel ==
    /\ ~ctxDone
    /\ ctxDone' = TRUE
    /\ cmds' = [i \in 1..Len(cmds) |->
                  [cmds[i] EXCEPT
                      !.caught = @ \/ (cmds[i].fg /\ Pending(cmds[i])
                                        /\ cmds[i].st = "run")]]
    /\ UNCHANGED <<parVars, timewait, limit, annotations, setupVars, moreVars, pc, windows, verbose, Cmds, Condition,
                   Vars, env, envMap, cd, lineno, stopped, failed, panicked,
                   log, mark, started, stdout, stderr, procs, background,
                   deferred, dstack, execCache, nguards, flushes, calls,
                   registered, ran, joined, dispatched, lastCond, asked,
                   stopAt, loopExit, finalOk>>

\* ctxWait, lines 752-753: cmd.Wait has returned and its result is taken
\* from errc: nil for status 0, else the exit error
CtxWaitErrc(i) ==
    /\ Pending(cmds[i])
    /\ cmds[i].st \in {"ok", "fail"}
    /\ cmds' = [cmds EXCEPT ![i].ret = IF cmds[i].st = "ok" THEN "nil"
                                       ELSE "exit"]
    /\ UNCHANGED <<runVars, timewait, parVars>>

\* ctxWait, lines 754-756: the context is done; the process is signalled
\* and ctx.Err() returned without waiting for the process
CtxWaitDone(i) ==
    /\ Pending(cmds[i])
    /\ WaitCtxDone(cmds[i])
    /\ cmds' = [cmds EXCEPT
                   ![i].sig = IF cmds[i].st = "run" THEN interruptProcess(@)
                              ELSE @,
                   ![i].ret = "ctx",
                   ![i].live = cmds[i].st = "run"]
    /\ UNCHANGED <<runVars, timewait, parVars>>

NextCtx ==
    \/ \E fg \in BOOLEAN : ExecStart(fg)
    \/ \E i \in 1..Len(cmds) : ProcEnds(i)
    \/ \E i \in 1..Len(cmds) : TimerExpires(i)
    \/ \E i \in 1..Len(cmds) : CommandContextKill(i)
    \/ Cancel
    \/ \E i \in 1..Len(cmds) : CtxWaitErrc(i)
    \/ \E i \in 1..Len(cmds) : CtxWaitDone(i)

\* any build, with and without timewait; the transcript is left aside
InitCtx == Init /\ ~verbose /\ Condition = "nil" /\ limit = MaxLines

SpecCtx == InitCtx /\ [][NextCtx]_vars

(***************************************************************************)
(* The transcript of a run: scripts of phase markers, blank lines and      *)
(* extension directives that run a command with ts.Exec, of at most        *)
(* MaxLogLines lines, in both modes.                                       *)
(***************************************************************************)
NextLog ==
    \/ SetupBegin
    \/ SetupFinish
    \/ EndOfScript
    \/ PhaseLine
    \/ BlankLine
    \/ CommandLine
    \/ ExtExec
    \/ FinalWait
    \/ ApplyScriptUpdates
    \/ EnterDeferred
    \/ EndDeferred
    \/ TeardownWait

InitLog ==
    Init /\ ~windows /\ Condition = "nil" /\ timewait = 0
         /\ limit = MaxLogLines

SpecLog == InitLog /\ [][NextLog]_vars

(***************************************************************************)
(* Failures and their annotations: scripts whose extension directives log  *)
(* text of their own with ts.Logf, run a command with ts.Exec or fail,     *)
(* with a hook and cleanups that may fail too.                             *)
(***************************************************************************)
\* texts an extension hands to ts.Logf: a line, a line reading as the
\* marker of captured output, lines with a carriage return, two lines, and
\* a line with its newline
Texts == { <<"a">>, mStdout, <<"a", CR>>, mStdout \o <<CR>>,
           <<"a", NL, "b">>, <<"b", NL>> }

\* an extension directive that calls ts.Logf (lines 668-672) and returns
ExtLogf ==
    /\ pc = "guard"
    /\ \E name \in Names, neg \in BOOLEAN, text \in Texts :
          /\ LookupCmd(name).tbl = "ext"
          /\ dispatched' = Append(dispatched, D(name, "ext", neg))
          /\ log' = Append(log, L("text", lineno, Logf(text)))
    /\ pc' = "line"
    /\ lastCond' = NoCond
    /\ nguards' = 0
    /\ asked' = NoAsk
    /\ UNCHANGED <<limit, cmdVars, parVars, annotations, setupVars, moreVars, windows, verbose, Cmds, Condition, Vars, env, envMap, cd,
                 lineno, stopped, failed, panicked, ctxDone, mark, started,
                 stdout, stderr, procs, background, deferred, dstack,
                 execCache, flushes, calls, registered, ran, joined,
                 stopAt, loopExit, finalOk>>

NextFail ==
    \/ SetupBegin
    \/ HookDefer
    \/ HookFail
    \/ SetupFinish
    \/ EndOfScript
    \/ PhaseLine
    \/ BlankLine
    \/ UnterminatedLine
    \/ CommandLine
    \/ BangAlone
    \/ ExtLogf
    \/ ExtExec
    \/ FinalWait
    \/ ApplyScriptUpdates
    \/ EnterDeferred
    \/ RunDeferred
    \/ EndDeferred
    \/ TeardownWait

InitFail ==
    Init /\ ~windows /\ Condition = "nil" /\ timewait = 0 /\ limit = MaxLines

SpecFail == InitFail /\ [][NextFail]_vars

(***************************************************************************)
(* Setup and the first directives: the hook may set variables and move     *)
(* Env.Cd (lines 117-122), or return an error.                             *)
(***************************************************************************)
\* the hook assigns Env.Cd
HookCd ==
    /\ pc = "hook"
    /\ \E dir \in {"work", "sub"} : dir # Cd /\ Cd' = dir
    /\ UNCHANGED <<limit, cmdVars, parVars, annotations, made, unpacked, hookCalls, archive, moreVars, pc, windows, verbose, Cmds, Condition, Vars, env, envMap, cd,
                 lineno, stopped, failed, panicked, ctxDone, log, mark,
                 started, stdout, stderr, procs, background, deferred,
                 dstack, execCache, nguards, flushes, calls, registered,
                 ran, joined, dispatched, lastCond, asked, stopAt,
                 loopExit, finalOk>>

NextSetup ==
    \/ SetupBegin
    \/ HookSetenv
    \/ HookCd
    \/ HookFail
    \/ SetupFinish
    \/ PhaseLine
    \/ BlankLine
    \/ CommandLine
    \/ DoCd
    \/ DoExt
    \/ DoUnknown

InitSetup ==
    Init /\ ~windows /\ ~verbose /\ Condition = "nil" /\ timewait = 0
         /\ limit = MaxLines

SpecSetup == InitSetup /\ [][NextSetup]_vars

(***************************************************************************)
(* The modes that keep work directories: the -testwork flag,               *)
(* Params.TestWork and Params.WorkdirRoot, as RunT (lines 214-222) hands   *)
(* them to each script.                                                    *)
(***************************************************************************)
\* line 221: a set WorkdirRoot turns Params.TestWork on
RunTTestWork(param, root) == IF root THEN TRUE ELSE param

NextWork ==
    \/ SetupBegin
    \/ HookFail
    \/ SetupFinish
    \/ EndOfScript
    \/ PhaseLine
    \/ BlankLine
    \/ CommandLine
    \/ ExtExec
    \/ FinalWait
    \/ ApplyScriptUpdates
    \/ EnterDeferred
    \/ EndDeferred
    \/ TeardownWait

InitWork ==
    /\ InitRun /\ ~windows /\ Condition = "nil" /\ timewait = 0
    /\ limit = MaxLines
    /\ testWork \in BOOLEAN
    /\ WorkdirRoot \in BOOLEAN
    /\ \E param \in BOOLEAN : TestWork = RunTTestWork(param, WorkdirRoot)
    /\ refCount = 1
    /\ subtests = <<>>
    /\ tempDir = {}
    /\ worlds = <<>>
    /\ disk = Script0
    /\ line = <<>>
    /\ args = <<>>

SpecWork == InitWork /\ [][NextWork]_vars

(***************************************************************************)
(* RunT, lines 205-265: the subtests of one call run in parallel below one *)
(* root directory; each goes through ts.run and then its deferred function *)
(* (lines 251-262), which removes the script's work directory, decrements  *)
(* refCount and, on reaching zero, removes the root.  subtests[i] is the    *)
(* position of subtest i with the history of what it has done; tempDir     *)
(* holds Root and the number of every script whose work directory        *)
(* exists.                                                                 *)
(***************************************************************************)
MaxScripts == 3

Scripts == 1..MaxScripts

\* testTempDir, among the directories of tempDir
Root == 0

Subtest(at) == [at |-> at, dec |-> 0, rm |-> 0]

\* line 252
Preserve == TestWork \/ testWork

\* the root is removed by whichever subtest is finished first
FirstIsLast(n) == n = MaxScripts - 1

\* line 256: the subtest whose decrement yields zero is the last
IsLast(n) == n = 0

\* os.Remove (line 259) removes an empty directory only
Remove(dirs) == IF dirs = {Root} THEN {} ELSE dirs

otherThanRoot == <<oneVars, workVars, utilVars, worlds, updVars, lineVars, cmdVars, parVars>>

\* t.Run's function up to ts.run, whose setup makes the work directory
\* (lines 308-309)
SubtestSetup ==
    \E i \in Scripts :
       /\ subtests[i].at = "start"
       /\ \E ok \in BOOLEAN :
             tempDir' = IF ok THEN tempDir \cup {i} ELSE tempDir
       /\ subtests' = [subtests EXCEPT ![i].at = "run"]
       /\ UNCHANGED <<refCount, otherThanRoot>>

\* ts.run returns, or leaves through Goexit or a panic: the deferred
\* function of line 251 is entered
SubtestReturns ==
    \E i \in Scripts :
       /\ subtests[i].at = "run"
       /\ subtests' = [subtests EXCEPT ![i].at = "deferred"]
       /\ UNCHANGED <<refCount, tempDir, otherThanRoot>>

\* lines 252-254
DeferredKeeps ==
    \E i \in Scripts :
       /\ subtests[i].at = "deferred"
       /\ Preserve
       /\ subtests' = [subtests EXCEPT ![i].at = "done"]
       /\ UNCHANGED <<refCount, tempDir, otherThanRoot>>

\* line 255: the error of removeAll is dropped
DeferredRemoveAll ==
    \E i \in Scripts :
       /\ subtests[i].at = "deferred"
       /\ ~Preserve
       /\ \E ok \in BOOLEAN :
             tempDir' = IF ok THEN tempDir \ {i} ELSE tempDir
       /\ subtests' = [subtests EXCEPT ![i].at = "removed"]
       /\ UNCHANGED <<refCount, otherThanRoot>>

\* line 256: atomic.AddInt32(&refCount, -1) and the test of its result
DeferredDecrement ==
    \E i \in Scripts :
       /\ subtests[i].at = "removed"
       /\ refCount' = refCount - 1
       /\ subtests' = [subtests EXCEPT
                         ![i].at = IF IsLast(refCount') THEN "last" ELSE "done",
                         ![i].dec = @ + 1]
       /\ UNCHANGED <<tempDir, otherThanRoot>>

\* line 259
DeferredRemoveRoot ==
    \E i \in Scripts :
       /\ subtests[i].at = "last"
       /\ tempDir' = Remove(tempDir)
       /\ subtests' = [subtests EXCEPT ![i].at = "done", ![i].rm = @ + 1]
       /\ UNCHANGED <<refCount, otherThanRoot>>

NextRoot ==
    \/ SubtestSetup
    \/ SubtestReturns
    \/ DeferredKeeps
    \/ DeferredRemoveAll
    \/ DeferredDecrement
    \/ DeferredRemoveRoot

\* lines 214-232: the root exists, refCount is the number of script files
InitRoot ==
    /\ InitRun /\ ~windows /\ ~verbose /\ Condition = "nil" /\ timewait = 0
    /\ limit = MaxLines
    /\ testWork \in BOOLEAN
    /\ WorkdirRoot \in BOOLEAN
    /\ \E param \in BOOLEAN : TestWork = RunTTestWork(param, WorkdirRoot)
    /\ refCount = MaxScripts
    /\ subtests = [i \in Scripts |-> Subtest("start")]
    /\ tempDir = {Root}
    /\ worlds = <<>>
    /\ disk = Script0
    /\ line = <<>>
    /\ args = <<>>

SpecRoot == InitRoot /\ [][NextRoot]_vars

(***************************************************************************)
(* A script and a sibling of the same test binary.  execCache (line 35) is *)
(* a package variable, so the two share it, while each looks programs up   *)
(* in its own PATH (execpath.Look(prog, ts.Getenv), line 605).  worlds     *)
(* holds two executions of the same script, line for line: worlds[1] with  *)
(* a sibling that does nothing, worlds[2] with a sibling that changes its  *)
(* own environment, evaluates exec: conditions and fails.  Each world:     *)
(* cache, the entries of execCache; path and sib, the programs found on    *)
(* the PATH of the script and of the sibling; results, the values the      *)
(* script's conditions had; failed, its verdict; sibAsked, the programs    *)
(* the sibling has asked for; sibFailed, the sibling's verdict.            *)
(***************************************************************************)
MaxAsk == 2

\* line 605: err == nil of execpath.Look with the script's own environment
Look(prog, path) == prog \in path

\* execCache.Do(prog, f), lines 604-607: f runs for the first caller of a
\* key only, and every later caller gets what it returned
CacheDo(cache, prog, found) == [q \in DOMAIN cache \cup {prog} |-> IF q \in DOMAIN cache THEN cache[q] ELSE found]

\* lines 602-609: the value of the condition exec:prog
CondAnswer(cache, prog, path) == CacheDo(cache, prog, Look(prog, path))[prog]

Toggle(path, prog) == IF prog \in path THEN path \ {prog} ELSE path \cup {prog}

\* one line "[exec:prog] cmd" of the script, in one world: the condition is
\* evaluated, and the command runs when it holds
GuardedLine(w, prog, cmd) ==
    IF w.failed THEN w
    ELSE LET ok == CondAnswer(w.cache, prog, w.path)
         IN [w EXCEPT !.cache = CacheDo(w.cache, prog, Look(prog, w.path)),
                      !.results = Append(w.results, ok),
                      !.failed = ok /\ cmd = "fail",
                      !.path = IF ok /\ cmd = "env" THEN Toggle(w.path, prog)
                               ELSE w.path]

notWorlds == <<oneVars, workVars, utilVars, rootVars, updVars, lineVars, cmdVars, parVars>>

\* the script executes its next line, the same line in both worlds
ScriptLine ==
    /\ \E i \in 1..2 : Len(worlds[i].results) < MaxAsk /\ ~worlds[i].failed
    /\ \E prog \in Progs, cmd \in {"fail", "env", "nop"} :
          worlds' = [i \in 1..2 |-> GuardedLine(worlds[i], prog, cmd)]
    /\ UNCHANGED notWorlds

\* the sibling changes its PATH
SiblingSetenv ==
    /\ ~worlds[2].sibFailed
    /\ \E prog \in Progs :
          worlds' = [worlds EXCEPT ![2].sib = Toggle(worlds[2].sib, prog)]
    /\ UNCHANGED notWorlds

\* the sibling evaluates an exec: condition
SiblingCondition ==
    /\ ~worlds[2].sibFailed
    /\ \E prog \in Progs :
          worlds' = [worlds EXCEPT
                       ![2].cache = CacheDo(worlds[2].cache, prog,
                                            Look(prog, worlds[2].sib)),
                       ![2].sibAsked = @ \cup {prog}]
    /\ UNCHANGED notWorlds

\* the sibling fails fatally: Fatalf (841-847) cancels the sibling's own
\* context and fails the sibling's own subtest
SiblingFatal ==
    /\ ~worlds[2].sibFailed
    /\ worlds' = [worlds EXCEPT ![2].sibFailed = TRUE]
    /\ UNCHANGED notWorlds

NextWorlds ==
    \/ ScriptLine
    \/ SiblingSetenv
    \/ SiblingCondition
    \/ SiblingFatal

World(path, sib) == [cache |-> [q \in {} |-> FALSE], path |-> path, sib |-> sib, results |-> <<>>, failed |-> FALSE, sibAsked |-> {}, sibFailed |-> FALSE]

InitWorlds ==
    /\ InitRun /\ ~windows /\ ~verbose /\ Condition = "nil" /\ timewait = 0
    /\ limit = MaxLines
    /\ testWork = FALSE
    /\ TestWork = FALSE
    /\ WorkdirRoot = FALSE
    /\ refCount = 1
    /\ subtests = <<>>
    /\ tempDir = {}
    /\ \E path \in SUBSET Progs, sib \in SUBSET Progs :
          worlds = <<World(path, sib), World(path, sib)>>
    /\ disk = Script0
    /\ line = <<>>
    /\ args = <<>>

SpecWorlds == InitWorlds /\ [][NextWorlds]_vars

(***************************************************************************)
(* Update mode (Params.UpdateScripts, lines 150-158): a cmp directive that *)
(* finds a difference records the actual output under the name of the      *)
(* archive entry it was compared with, and applyScriptUpdates rewrites the *)
(* script file at the end of the run.                                      *)
(***************************************************************************)
\* archives with names that differ and with a name that occurs twice
Archives == { [comment |-> "c", files |-> <<File("a", 4), File("b", 5)>>], [comment |-> "d", files |-> <<File("a", 4), File("b", 5), File("a", 6)>>] }

\* the names an update is recorded under; "z" is in no archive
UpdateNames == {"a", "b", "z"}

\* ts.scriptUpdates[name] = content
RecordUpdate ==
    /\ pc = "line"
    /\ \E name \in UpdateNames, content \in Contents :
          scriptUpdates' = [n \in DOMAIN scriptUpdates \cup {name} |-> IF n = name THEN content ELSE scriptUpdates[n]]
    /\ UNCHANGED <<oneVars, workVars, utilVars, rootVars, worlds, lineVars, cmdVars, parVars, disk, writes>>

NextUpdates ==
    \/ SetupBegin
    \/ HookFail
    \/ SetupFinish
    \/ EndOfScript
    \/ BlankLine
    \/ UnterminatedLine
    \/ RecordUpdate
    \/ FinalWait
    \/ ApplyScriptUpdates
    \/ EnterDeferred
    \/ EndDeferred
    \/ TeardownWait

InitUpdates ==
    /\ InitRun /\ ~windows /\ ~verbose /\ Condition = "nil" /\ timewait = 0
    /\ limit = MaxLines
    /\ testWork = FALSE
    /\ TestWork = FALSE
    /\ WorkdirRoot = FALSE
    /\ refCount = 1
    /\ subtests = <<>>
    /\ tempDir = {}
    /\ worlds = <<>>
    /\ disk \in Archives
    /\ line = <<>>
    /\ args = <<>>

SpecUpdates == InitUpdates /\ [][NextUpdates]_vars

(***************************************************************************)
(* Lines as texts: parse (lines 894-949) and expand (lines 785-792) on the *)
(* characters of a line.  The positions i and start count from 0 as in the *)
(* code, and start is -1 when no chunk is open.                            *)
(***************************************************************************)
MaxLine == 3

TAB == "\t"
QUOTE == "'"
DOLLAR == "$"
HASH == "#"

\* line[lo:hi]
Slice(s, lo, hi) == SubSeq(s, lo + 1, hi)

\* os.Expand's isAlphaNum and isShellSpecialVar, on the characters used here
isAlphaNum(c) == c \in {"a", "b", "c", "d", "v", "w", "X"}
isShellSpecialVar(c) == c = DOLLAR

\* os.Expand's getShellName without braces: the width of the name at s[j:]
RECURSIVE AlphaNumRun(_, _)
AlphaNumRun(s, j) == IF j < Len(s) /\ isAlphaNum(s[j + 1]) THEN 1 + AlphaNumRun(s, j + 1) ELSE 0

NameWidth(s, j) == IF isShellSpecialVar(s[j + 1]) THEN 1 ELSE AlphaNumRun(s, j)

\* os.Expand(s, mapping) with ts.Getenv as the mapping (lines 786-791): a
\* dollar that no name follows stays, a name is replaced by its value
RECURSIVE ExpandFrom(_, _, _)
ExpandFrom(s, m, j) ==
    IF j >= Len(s) THEN <<>>
    ELSE IF s[j + 1] = DOLLAR /\ j + 1 < Len(s)
    THEN IF NameWidth(s, j + 1) = 0
         THEN <<DOLLAR>> \o ExpandFrom(s, m, j + 1)
         ELSE TsGetenv(m, Slice(s, j + 1, j + 1 + NameWidth(s, j + 1))) \o ExpandFrom(s, m, j + 1 + NameWidth(s, j + 1))
    ELSE <<s[j + 1]>> \o ExpandFrom(s, m, j + 1)

expand(s, m) == ExpandFrom(s, m, 0)

\* a carriage return is part of the word
argSeparatorButCR(c) == c \in {" ", TAB, HASH}

\* line 904: the characters that end a word outside quotes
argSeparator(c) == c \in {" ", TAB, CR, HASH}

\* a comment sign ends the word and the rest of the line is read on
endsLineAtItsEnd(text, i) == i >= Len(text)

\* line 911: the loop is left at the end of the line and at a comment sign
endsLine(text, i) == i >= Len(text) \/ text[i + 1] = HASH

\* the loop of lines 903-947 from position i on; fatal is the Fatalf of
\* line 918, after which parse does not return
RECURSIVE parseFrom(_, _, _, _, _, _, _)
parseFrom(text, m, i, words, arg, start, quoted) ==
    IF ~quoted /\ (i >= Len(text) \/ argSeparator(text[i + 1]))
    THEN LET found == start >= 0
             words1 == IF found THEN Append(words, arg \o expand(Slice(text, start, i), m)) ELSE words
         IN IF endsLine(text, i)
            THEN [fatal |-> FALSE, args |-> words1]
            ELSE parseFrom(text, m, i + 1, words1, IF found THEN <<>> ELSE arg, IF found THEN -1 ELSE start, quoted)
    ELSE IF i >= Len(text) THEN [fatal |-> TRUE, args |-> <<>>]
    ELSE IF text[i + 1] = QUOTE
    THEN IF ~quoted
         THEN parseFrom(text, m, i + 1, words, IF start >= 0 THEN arg \o expand(Slice(text, start, i), m) ELSE arg, i + 1, TRUE)
         ELSE IF i + 1 < Len(text) /\ text[i + 2] = QUOTE
         THEN parseFrom(text, m, i + 2, words, arg \o Slice(text, start, i), i + 1, TRUE)
         ELSE parseFrom(text, m, i + 1, words, arg \o Slice(text, start, i), i + 1, FALSE)
    ELSE parseFrom(text, m, i + 1, words, arg, IF start < 0 THEN i ELSE start, quoted)

\* a quote left open is closed at the end of the line
parseClosingQuotes(text, m) == IF parseFrom(text, m, 0, <<>>, <<>>, -1, FALSE).fatal THEN parseFrom(text \o <<QUOTE>>, m, 0, <<>>, <<>>, -1, FALSE) ELSE parseFrom(text, m, 0, <<>>, <<>>, -1, FALSE)

parse(text, m) == parseFrom(text, m, 0, <<>>, <<>>, -1, FALSE)

\* the lines of the scripts: every text of up to MaxLine characters, and
\* longer ones with quoted words, doubled quotes, variables and comments
Alphabet == {"a", " ", TAB, CR, QUOTE, DOLLAR, "X", HASH}

ShortLines == UNION {[1..n -> Alphabet] : n \in 0..MaxLine}

LongLines ==
    { <<"a", " ", QUOTE, "b", " ", "c", QUOTE, " ", "d">>,
      <<QUOTE, "a", QUOTE, QUOTE, "b", QUOTE>>,
      <<"a", QUOTE, DOLLAR, "X", QUOTE, DOLLAR, "X">>,
      <<QUOTE, QUOTE, QUOTE, QUOTE>>,
      <<QUOTE, QUOTE, QUOTE, QUOTE, QUOTE, QUOTE>>,
      <<QUOTE, "a", QUOTE, QUOTE, QUOTE>>,
      <<"a", " ", QUOTE, "b", " ", HASH, "c">>,
      <<"a", " ", HASH, " ", "b", " ", "c">>,
      <<"a", " ", QUOTE, "b", HASH, QUOTE, " ", HASH, " ", QUOTE>>,
      <<DOLLAR, "X", QUOTE, " ", QUOTE, DOLLAR, "X", "a">>,
      <<"a", TAB, CR, " ", DOLLAR, "X", "a", " ", DOLLAR, DOLLAR>> }

Lines == ShortLines \cup LongLines

\* values the hook gives the variable X: words, a quote, a comment sign
TextValues == { <<"v", " ", "w">>, <<QUOTE, "v">>, <<"v", HASH>> }

HookSetenvText ==
    /\ pc = "hook"
    /\ Len(Vars) = Len(Seed)
    /\ \E value \in TextValues : Vars' = EnvSetenv(Vars, <<"X">>, value)
    /\ UNCHANGED <<limit, cmdVars, parVars, annotations, setupVars, moreVars, pc, windows, verbose, Cmds, Condition, env, envMap, cd,
                 lineno, stopped, failed, panicked, ctxDone, log, mark,
                 started, stdout, stderr, procs, background, deferred,
                 dstack, execCache, nguards, flushes, calls, registered,
                 ran, joined, dispatched, lastCond, asked, stopAt,
                 loopExit, finalOk>>

\* lines 439-475 for a line that is not a phase heading: parse fails the
\* run, or returns no word and the line is passed over, or the line is
\* echoed and goes on to its guards and its command
ReadLine ==
    /\ pc = "line"
    /\ lineno < limit
    /\ lineno' = lineno + 1
    /\ \E text \in Lines :
          /\ ~HasPrefix(text, <<HASH>>)
          /\ line' = text
          /\ \E r \in {parse(text, envMap)} :
                IF r.fatal
                THEN /\ Fatal(log, lineno + 1)
                     /\ UNCHANGED <<args, nguards>>
                ELSE /\ args' = r.args
                     /\ IF r.args = <<>>
                        THEN UNCHANGED <<pc, log, nguards, stopped, failed, ctxDone, annotations>>
                        ELSE /\ log' = Append(log, L("echo", lineno + 1, 0))
                             /\ nguards' = 0
                             /\ pc' = "guard"
                             /\ UNCHANGED <<stopped, failed, ctxDone, annotations>>
    /\ lastCond' = NoCond
    /\ asked' = NoAsk
    /\ UNCHANGED <<limit, cmdVars, parVars, setupVars, workVars, utilVars, rootVars, worlds, updVars, windows, verbose, Cmds, Condition, Vars, env, envMap, cd,
                 panicked, mark, started, stdout, stderr, procs,
                 background, deferred, dstack, execCache,
                 flushes, calls, registered, ran, joined, dispatched,
                 stopAt, loopExit, finalOk>>

\* the command names of these scripts: the word a is the extension
\* directive "ext" of Params.Cmds, every other word is in no table
NameOf(word) == IF word = <<"a">> THEN "ext" ELSE "nothing"

\* lines 512-520 for a line without guards: args[0] is looked up and the
\* command is run with args[1:]
RunArgs ==
    /\ pc = "guard"
    /\ args # <<>>
    /\ IF LookupCmd(NameOf(args[1])).tbl = "none"
       THEN /\ Fatalf
            /\ UNCHANGED dispatched
       ELSE /\ dispatched' = Append(dispatched, D(NameOf(args[1]), LookupCmd(NameOf(args[1])).tbl, FALSE))
            /\ pc' = "line"
            /\ UNCHANGED <<stopped, log, failed, ctxDone, annotations>>
    /\ lastCond' = NoCond
    /\ nguards' = 0
    /\ asked' = NoAsk
    /\ UNCHANGED <<limit, cmdVars, parVars, setupVars, moreVars, windows, verbose, Cmds, Condition, Vars, env, envMap, cd,
                 lineno, panicked, mark, started, stdout, stderr, procs,
                 background, deferred, dstack, execCache, flushes, calls,
                 registered, ran, joined, stopAt, loopExit, finalOk>>

NextParse ==
    \/ SetupBegin
    \/ HookSetenvText
    \/ SetupFinish
    \/ EndOfScript
    \/ PhaseLine
    \/ ReadLine
    \/ RunArgs

InitParse ==
    Init /\ ~windows /\ ~verbose /\ Condition = "nil" /\ timewait = 0
         /\ limit = MaxLines

SpecParse == InitParse /\ [][NextParse]_vars

(***************************************************************************)
(* RepeatableAttempt (utils, lines 206-240): the loop, and the function    *)
(* that time.AfterFunc runs in a goroutine of its own when a timer armed   *)
(* at line 212 expires before line 229 stops it.  rep is the call: at, the *)
(* position of the loop; i, the loop counter; sent, the requests issued;   *)
(* timer, whether the timer of this round is armed; fired, the rounds      *)
(* whose timer has expired and whose function has not run yet; last, what  *)
(* the last request returned; ret, what the call returned; expired, the    *)
(* history of whether a timer has expired at all; perRound, whether the    *)
(* build gives every round of the loop a variable i of its own.            *)
(***************************************************************************)
MaxRepeat == 2
MaxSent == 4

Statuses == {200, 201, 202, 204, 404, 500}

\* every status of the 2xx class counts
goodStatusClass(code) == code \in 200..299

\* line 219: StatusOK, StatusCreated, StatusAccepted
goodStatus(code) == code \in {200, 201, 202}

NoResponse == [n |-> 0, code |-> 0, err |-> FALSE]

notRep == <<oneVars, cmdVars, parVars, workVars, stdin, up, rootVars, worlds, updVars, lineVars>>

\* lines 207-210: the call, up to the first test of the loop
RepCall ==
    /\ rep.at = "none"
    /\ \E perRound \in BOOLEAN :
       rep' = [at |-> "test", perRound |-> perRound, i |-> 0, sent |-> 0, timer |-> FALSE, fired |-> {}, expired |-> FALSE, last |-> NoResponse, ret |-> [resp |-> NoResponse, err |-> "none"]]
    /\ UNCHANGED notRep

\* line 211, i < maxRepeat, and line 239 when it fails
RepTest ==
    /\ rep.at = "test"
    /\ IF rep.i < MaxRepeat
       THEN rep' = [rep EXCEPT !.at = "arm"]
       ELSE rep' = [rep EXCEPT !.at = "returned", !.ret = [resp |-> NoResponse, err |-> "all connection attempts failed"]]
    /\ UNCHANGED notRep

\* line 212
RepArm ==
    /\ rep.at = "arm"
    /\ rep' = [rep EXCEPT !.at = "do", !.timer = TRUE]
    /\ UNCHANGED notRep

\* the timer expires: twice the delay has passed since line 212
RepTimerFires ==
    /\ rep.at # "none"
    /\ rep.timer
    /\ rep' = [rep EXCEPT !.timer = FALSE, !.expired = TRUE, !.fired = @ \cup {rep.sent + (IF rep.at = "do" THEN 1 ELSE 0)}]
    /\ UNCHANGED notRep

\* the round of the loop that is under way: the number of its request
Round == IF rep.at = "do" THEN rep.sent + 1 ELSE IF rep.at \in {"stop", "sleep"} THEN rep.sent ELSE 0

\* lines 212-214: the function of the timer of round k runs and assigns i.
\* In a build where the loop has one variable i it writes the counter of
\* the loop whenever it runs; in a build where every round has an i of its
\* own (Go 1.22) it writes the counter only while round k is under way
RepCallback ==
    /\ rep.at # "none"
    /\ \E k \in rep.fired :
          rep' = [rep EXCEPT !.fired = @ \ {k},
                             !.i = IF k = Round \/ ~rep.perRound THEN 0 ELSE @]
    /\ UNCHANGED notRep

\* lines 215-227: the request, and the return of a good response
RepDo ==
    /\ rep.at = "do"
    /\ rep.sent < MaxSent
    /\ \E erred \in BOOLEAN, code \in Statuses :
          LET resp == [n |-> rep.sent + 1, code |-> IF erred THEN 0 ELSE code, err |-> erred]
          IN IF ~erred /\ goodStatus(code)
             THEN rep' = [rep EXCEPT !.at = "returned", !.sent = @ + 1, !.last = resp, !.ret = [resp |-> resp, err |-> "nil"]]
             ELSE rep' = [rep EXCEPT !.at = "stop", !.sent = @ + 1, !.last = resp]
    /\ UNCHANGED notRep

\* line 229
RepStop ==
    /\ rep.at = "stop"
    /\ rep' = [rep EXCEPT !.at = "sleep", !.timer = FALSE]
    /\ UNCHANGED notRep

\* lines 236 and 211: the sleep, and i++
RepSleep ==
    /\ rep.at = "sleep"
    /\ rep' = [rep EXCEPT !.at = "test", !.i = @ + 1]
    /\ UNCHANGED notRep

NextRepeat ==
    \/ RepCall
    \/ RepTest
    \/ RepArm
    \/ RepTimerFires
    \/ RepCallback
    \/ RepDo
    \/ RepStop
    \/ RepSleep

InitRepeat ==
    Init /\ ~windows /\ ~verbose /\ Condition = "nil" /\ timewait = 0
         /\ limit = MaxLines

SpecRepeat == InitRepeat /\ [][NextRepeat]_vars

(***************************************************************************)
(* UploadFile (utils): the caller and its two goroutines.  up.at is the    *)
(* position of the caller, up.w that of the goroutine that writes the form *)
(* into the pipe, up.r that of the goroutine that sends the request.       *)
(* errchan and respchan are unbuffered: a send and its receive are one     *)
(* step, and a goroutine at a send waits there until the caller receives.  *)
(* up.werr is the error the writer has to send, up.res the result of       *)
(* client.Do, up.ret the pair the caller returned, up.pipe whether the     *)
(* writing end of the pipe is still open.                                  *)
(***************************************************************************)
UpCodes == {200, 404, 500}
NoUpload == [resp |-> 0, err |-> "none"]
notUp == <<oneVars, cmdVars, parVars, workVars, stdin, rep, rootVars, worlds, updVars, lineVars>>

\* lines 244-261, 289, 298-300: the request is built and, unless that
\* fails, the channels are made, both goroutines are started and the
\* caller comes to its select
UpCall ==
    /\ up.at = "none"
    /\ \E bad \in BOOLEAN :
          up' = IF bad
                THEN [at |-> "returned", w |-> "none", r |-> "none", werr |-> "nil",
                      pipe |-> "open", res |-> NoUpload, ret |-> [resp |-> 0, err |-> "request"]]
                ELSE [at |-> "select", w |-> "create", r |-> "start", werr |-> "nil",
                      pipe |-> "open", res |-> NoUpload, ret |-> NoUpload]
    /\ UNCHANGED notUp

\* a step of the writer with outcome ok: on to the next step, or to the
\* send of its error (lines 265-267, 270-272, 277-279, 283-285)
WriterStep(from, to, ok) ==
    /\ up.at # "none"
    /\ up.w = from
    /\ up' = IF ok THEN [up EXCEPT !.w = to]
                   ELSE [up EXCEPT !.w = "send", !.werr = from]

\* a write into the pipe goes on once client.Do reads the body
PipeRead == up.at # "none" /\ up.r # "start"

\* line 264
UpCreateFormFile ==
    /\ PipeRead
    /\ \E ok \in BOOLEAN : WriterStep("create", "open", ok)
    /\ UNCHANGED notUp

\* line 269
UpOpen ==
    /\ \E ok \in BOOLEAN : WriterStep("open", "copy", ok)
    /\ UNCHANGED notUp

\* line 277
UpCopy ==
    /\ PipeRead
    /\ \E ok \in BOOLEAN : WriterStep("copy", "close", ok)
    /\ UNCHANGED notUp

\* lines 283-288: the form is closed; without an error the goroutine
\* returns and sends nothing
UpClose ==
    /\ PipeRead
    /\ \E ok \in BOOLEAN : WriterStep("close", "defers", ok)
    /\ UNCHANGED notUp

\* lines 262-263: the deferred calls of the writer close the form and the
\* writing end of the pipe, and the goroutine ends
UpWriterEnds ==
    /\ up.at # "none"
    /\ up.w = "defers"
    /\ up' = [up EXCEPT !.w = "done", !.pipe = "closed"]
    /\ UNCHANGED notUp

\* line 291: client.Do is under way
UpDoStarts ==
    /\ up.at # "none"
    /\ up.r = "start"
    /\ up' = [up EXCEPT !.r = "doing"]
    /\ UNCHANGED notUp

\* lines 291-296: client.Do returns an error or a response, and the
\* goroutine comes to its send on errchan or on respchan
UpDoReturns ==
    /\ up.at # "none"
    /\ up.r = "doing"
    /\ \/ up' = [up EXCEPT !.r = "sendErr", !.res = [resp |-> 0, err |-> "do"]]
       \/ \E code \in UpCodes :
             up' = [up EXCEPT !.r = "sendResp", !.res = [resp |-> code, err |-> "nil"]]
    /\ UNCHANGED notUp

\* lines 266, 271, 278, 284 with 301-302: the writer's send on errchan and
\* the caller's receive; the caller returns, the writer returns
UpWriterSends ==
    /\ up.at = "select"
    /\ up.w = "send"
    /\ up' = [up EXCEPT !.at = "returned", !.w = "defers",
                        !.ret = [resp |-> 0, err |-> up.werr]]
    /\ UNCHANGED notUp

\* line 293 with 301-302: the request goroutine's send on errchan and the
\* caller's receive
UpRequestSendsErr ==
    /\ up.at = "select"
    /\ up.r = "sendErr"
    /\ up' = [up EXCEPT !.at = "returned", !.r = "done",
                        !.ret = [resp |-> 0, err |-> up.res.err]]
    /\ UNCHANGED notUp

\* line 295 with 303-304: the send on respchan and the caller's receive
UpRequestSendsResp ==
    /\ up.at = "select"
    /\ up.r = "sendResp"
    /\ up' = [up EXCEPT !.at = "returned", !.r = "done",
                        !.ret = [resp |-> up.res.resp, err |-> "nil"]]
    /\ UNCHANGED notUp

NextUpload ==
    \/ UpCall
    \/ UpCreateFormFile
    \/ UpOpen
    \/ UpCopy
    \/ UpClose
    \/ UpWriterEnds
    \/ UpDoStarts
    \/ UpDoReturns
    \/ UpWriterSends
    \/ UpRequestSendsErr
    \/ UpRequestSendsResp

InitUpload == Init /\ ~windows /\ ~verbose /\ Condition = "nil" /\ timewait = 0 /\ limit = MaxLines

SpecUpload == InitUpload /\ [][NextUpload]_vars

(***************************************************************************)
(* The ways out of run (pass, stop, Fatalf in setup, in the hook, in the   *)
(* loop, in the final wait, in the updates and in a cleanup) with updates  *)
(* recorded, cleanups registered and a background process started.         *)
(***************************************************************************)
NextTeardown ==
    \/ SetupBegin
    \/ HookDefer
    \/ HookFail
    \/ SetupFinish
    \/ EndOfScript
    \/ CommandLine
    \/ RecordUpdate
    \/ DoStop
    \/ DoExecBg
    \/ FinalWait
    \/ ApplyScriptUpdates
    \/ EnterDeferred
    \/ RunDeferred
    \/ EndDeferred
    \/ TeardownWait
    \/ ProcExit
    \/ BgCancel

InitTeardown == InitUpdates

SpecTeardown == InitTeardown /\ [][NextTeardown]_vars

(***************************************************************************)
(* ts.mark and the transcript: scripts of at most MaxLogLines lines with   *)
(* phase markers, directives that run a command, and stop, in both modes,  *)
(* with and without the environment at the head of the transcript.         *)
(***************************************************************************)
NextMark ==
    \/ SetupBegin
    \/ SetupFinish
    \/ EndOfScript
    \/ PhaseLine
    \/ CommandLine
    \/ ExtExec
    \/ DoStop
    \/ FinalWait
    \/ ApplyScriptUpdates
    \/ EnterDeferred
    \/ EndDeferred
    \/ TeardownWait

InitMark ==
    /\ InitRun /\ ~windows /\ Condition = "nil" /\ timewait = 0
    /\ limit = MaxLogLines
    /\ testWork \in BOOLEAN
    /\ TestWork = FALSE
    /\ WorkdirRoot = FALSE
    /\ refCount = 1
    /\ subtests = <<>>
    /\ tempDir = {}
    /\ worlds = <<>>
    /\ disk = Script0
    /\ line = <<>>
    /\ args = <<>>

SpecMark == InitMark /\ [][NextMark]_vars

(***************************************************************************)
(* Scripts of at most MaxPhaseLines lines in phases: markers and           *)
(* directives that run a command and may fail, in both modes.              *)
(***************************************************************************)
NextPhases ==
    \/ SetupBegin
    \/ SetupFinish
    \/ EndOfScript
    \/ PhaseLine
    \/ CommandLine
    \/ ExtExec
    \/ FinalWait
    \/ ApplyScriptUpdates
    \/ EnterDeferred
    \/ EndDeferred
    \/ TeardownWait

InitPhases ==
    Init /\ ~windows /\ Condition = "nil" /\ timewait = 0
         /\ limit = MaxPhaseLines

SpecPhases == InitPhases /\ [][NextPhases]_vars

(***************************************************************************)
(* exec and execBackground (lines 676-712) and the pending standard input. *)
(* ts.stdin is 0 when empty and otherwise the number of the stdin          *)
(* directive that set it.  A record of cmds is here one call: st is        *)
(* "lookup" when buildExecCmd returned an error, "start" when cmd.Start    *)
(* did, and "run" for a started process; dir, env and input are cmd.Dir,   *)
(* cmd.Env and what cmd.Stdin reads.                                       *)
(***************************************************************************)
MaxStdin == 2
notStdin == <<oneVars, timewait, parVars, workVars, rep, up, rootVars, worlds, updVars, lineVars>>

\* the numbers given to ts.stdin so far
Given == {stdin} \cup {cmds[i].input : i \in 1..Len(cmds)}
Latest == CHOOSE n \in Given : \A m \in Given : m <= n

\* the stdin directive: ts.stdin is set to what the directive read
CmdStdin ==
    /\ pc = "line"
    /\ Latest < MaxStdin
    /\ stdin' = Latest + 1
    /\ UNCHANGED <<notStdin, cmds>>

\* lines 685 and 706: cmd.Env = append(ts.env, "PWD="+ts.cd)
ChildEnv(e, dir) == Append(e, <<"PWD", EQ, dir>>)

\* a start that leaves ts.stdin as it is
StartKeepsStdin(fg, found, begun) ==
    IF ~found
    THEN [cmd |-> [fg |-> fg, st |-> "lookup", dir |-> "", env |-> <<>>, input |-> 0],
          stdin |-> stdin]
    ELSE [cmd |-> [fg |-> fg, st |-> IF begun THEN "run" ELSE "start",
                   dir |-> cd, env |-> ChildEnv(env, cd), input |-> stdin],
          stdin |-> stdin]

\* exec (677-694) and execBackground (700-711): buildExecCmd returns an
\* error and the function returns; or the command gets ts.cd, the list
\* with PWD and a reader of ts.stdin, is started, and ts.stdin is cleared
\* whether or not cmd.Start returned an error
Start(fg, found, begun) ==
    IF ~found
    THEN [cmd |-> [fg |-> fg, st |-> "lookup", dir |-> "", env |-> <<>>, input |-> 0],
          stdin |-> stdin]
    ELSE [cmd |-> [fg |-> fg, st |-> IF begun THEN "run" ELSE "start",
                   dir |-> cd, env |-> ChildEnv(env, cd), input |-> stdin],
          stdin |-> 0]

TsExec(fg) ==
    /\ pc = "line"
    /\ Len(cmds) < MaxCmds
    /\ \E found \in BOOLEAN, begun \in BOOLEAN :
       \E r \in {Start(fg, found, begun)} :
          /\ cmds' = Append(cmds, r.cmd)
          /\ stdin' = r.stdin
    /\ UNCHANGED notStdin

\* a directive moves the cursor directory
TsChdir ==
    /\ pc = "line"
    /\ cd' = IF cd = "work" THEN "sub" ELSE "work"
    /\ UNCHANGED <<limit, cmdVars, parVars, annotations, setupVars, moreVars, pc, windows, verbose, Cmds, Condition, Vars, env, envMap, lineno,
                 stopped, failed, panicked, ctxDone, log, mark, started,
                 stdout, stderr, procs, background, deferred, dstack,
                 execCache, nguards, flushes, calls, registered, ran, joined,
                 dispatched, lastCond, asked, stopAt, loopExit, finalOk>>

NextStdin ==
    \/ SetupBegin
    \/ SetupFinish
    \/ TsSetenv
    \/ TsChdir
    \/ CmdStdin
    \/ \E fg \in BOOLEAN : TsExec(fg)

InitStdin == Init /\ ~windows /\ ~verbose /\ Condition = "nil" /\ timewait = 0 /\ limit = MaxLines

SpecStdin == InitStdin /\ [][NextStdin]_vars

(***************************************************************************)
(* The environment as a list of entries: an entry names the key that       *)
(* stands before its first '=' (the reading of Env.Getenv and of every     *)
(* subprocess that is handed the list).                                    *)
(***************************************************************************)
EntryKey(e) == SubSeq(e, 1, IndexEq(e) - 1)
EntryValue(e) == SubSeq(e, IndexEq(e) + 1, Len(e))

EntriesFor(list, K) ==
    {i \in 1..Len(list) :
        IndexEq(list[i]) > 0 /\ envvarname(EntryKey(list[i])) = envvarname(K)}

LastValue(list, K) ==
    IF EntriesFor(list, K) = {} THEN <<>>
    ELSE LET i == CHOOSE m \in EntriesFor(list, K) :
                      \A j \in EntriesFor(list, K) : j <= m
         IN  EntryValue(list[i])

ProbeKeys == Keys \cup { <<"W">>, <<"N">>, <<"/">> }

(***************************************************************************)
(* C1: lookup is last-match-wins.  While the hook runs Env.Getenv(K), and  *)
(* afterwards TestScript.Getenv(K), is the value of the most recently      *)
(* added entry for K, and empty when the list has no entry for K.          *)
(***************************************************************************)
C1_LastMatchWins ==
    \A K \in ProbeKeys :
        /\ pc = "hook" => EnvGetenv(Vars, K) = LastValue(Vars, K)
        /\ pc = "line" => TsGetenv(envMap, K) = LastValue(env, K)

(***************************************************************************)
(* C2: a setenv with an empty key or a key containing '=' is fatal and     *)
(* adds nothing, at both entry points (Env.Setenv and TestScript.Setenv).  *)
(***************************************************************************)
C2_InvalidKeyIsFatal ==
    [][(Len(calls') > Len(calls) /\ InvalidKey(calls'[Len(calls')].key))
          => /\ panicked' \/ failed'
             /\ Vars' = Vars
             /\ env' = env
             /\ envMap' = envMap]_vars


(***************************************************************************)
(* Helpers of the claims about a whole run.                                *)
(***************************************************************************)
Reverse(s) == [i \in 1..Len(s) |-> s[Len(s) + 1 - i]]
IsPrefix(a, b) == Len(a) <= Len(b) /\ SubSeq(b, 1, Len(a)) = a
FailCount(lg) == Cardinality({i \in 1..Len(lg) : lg[i].k = "FAIL"})
BeforeTeardown == {"setup", "hook", "line", "guard", "finalwait", "updates",
                   "deferred0"}

(***************************************************************************)
(* C3: every action registered with Defer runs exactly once at teardown,   *)
(* in reverse order of registration, whether the run passes, stops early   *)
(* or fails; an action registered earlier still runs when one registered   *)
(* later aborts.  ran is always a prefix of the reversed registrations,    *)
(* empty before the teardown and complete after the chain.                 *)
(***************************************************************************)
C3_DeferredRunOnceInReverse ==
    /\ IsPrefix(ran, Reverse(registered))
    /\ pc \in BeforeTeardown => ran = <<>>
    /\ pc \in {"bgwait", "done"} => ran = Reverse(registered)

\* a passing run with two cleanups, both of which ended in Fatalf
C3_Witness ==
    /\ pc = "done"
    /\ Len(ran) = 2
    /\ HasPass(log)
    /\ FailCount(log) = 2

C5_PassIffCleanEnd ==
    /\ PassCount(log) <= 1
    /\ HasPass(log) <=> (loopExit = "eof" /\ stopAt = 0 /\ finalOk)
    /\ HasPass(log) => ~failed /\ FailCount(log) = 0

RunContext == <<Vars, env, envMap, cd, stopped, failed, panicked, ctxDone,
                mark, started, stdout, stderr, background, deferred,
                registered, joined, stopAt, loopExit>>

C7_GuardMismatchSkipsLine ==
    [][/\ (pc = "line" /\ pc' = "guard")
             => /\ lineno' = lineno + 1
                /\ log' = Append(log, L("echo", lineno', 0))
                /\ UNCHANGED <<RunContext, dispatched>>
       /\ (pc = "guard" /\ pc' = "guard")
             => UNCHANGED <<lineno, log, RunContext, dispatched>>
       /\ (pc = "guard" /\ lastCond'.out = "value"
                        /\ lastCond'.ok # lastCond'.want)
             => /\ pc' = "line"
                /\ UNCHANGED <<lineno, log, RunContext, dispatched>>]_vars

\* line 1 was echoed and skipped, line 2 has run a directive
C7_Witness ==
    /\ \E i \in 1..Len(log) : log[i] = L("echo", 1, 0)
    /\ Len(dispatched) = 1
    /\ dispatched[1].line = 2
    /\ ~failed

(***************************************************************************)
(* C8: a name is looked up in the built-in table first and in Params.Cmds  *)
(* only when it is not there, so an entry of Params.Cmds under a built-in  *)
(* name is never called; a name in neither table is fatal and no           *)
(* directive runs for the line.                                            *)
(***************************************************************************)
C8_BuiltinBeforeExtension ==
    [][/\ \A i \in 1..Len(dispatched') :
             /\ dispatched'[i].name \in scriptCmds
                   => dispatched'[i].tbl = "builtin"
             /\ dispatched'[i].tbl = "ext" => dispatched'[i].name \in Cmds
             /\ dispatched'[i].name \in scriptCmds \cup Cmds
       /\ (pc = "guard" /\ lastCond'.out = "unknown")
             => /\ failed'
                /\ dispatched' = dispatched
                /\ pc' \notin {"line", "guard"}]_vars

\* a directive has run under a name that both tables have
C8_Witness ==
    \E i \in 1..Len(dispatched) :
        /\ dispatched[i].name \in Cmds \cap scriptCmds
        /\ dispatched[i].tbl = "builtin"

(***************************************************************************)
(* C9: Params.Condition is never called for short, net, link, symlink, a   *)
(* known OS or architecture name, or a predicate with the prefix exec:,    *)
(* stdout: or stderr:.                                                     *)
(***************************************************************************)
StandardCond(c) ==
    \/ c \in {cShort, cNet, cLink, cSymlink}
    \/ c \in KnownOS \cup KnownArch
    \/ HasPrefix(c, pExec)
    \/ HasPrefix(c, pStdout)
    \/ HasPrefix(c, pStderr)

C9_ResolverOnlyForOthers == asked # NoAsk => ~StandardCond(asked)

\* a resolver is registered and a guard with exec: got its value without it
C9_Witness ==
    /\ Condition # "nil"
    /\ lastCond.cond = cExecP
    /\ lastCond.out = "value"
    /\ asked = NoAsk

C11_ExecMemoized ==
    /\ \A p \in Progs : probes[p] <= 1
    /\ \A a, b \in answers : a[1] = b[1] => a[2] = b[2]

\* two goroutines found the entry of one name not done; one of them probed
\* and has returned, the other holds the lock and will not probe
C11_Witness ==
    \E p \in Progs, g \in Evaluators :
        /\ probes[p] = 1
        /\ \E b \in BOOLEAN : <<p, b>> \in answers
        /\ evals[g].pc = "unlock"
        /\ evals[g].prog = p
        /\ entries[p].mu = g

(***************************************************************************)
(* C12: after every foreground Exec, whether the command succeeds, fails   *)
(* or cannot be resolved, the captured standard output and standard error  *)
(* are exactly what that command wrote, empty when it wrote nothing or     *)
(* never ran; ReadFile("stdout") and ReadFile("stderr") return these       *)
(* captures, never the output of an earlier command and never a file.      *)
(***************************************************************************)
\* what the command of this line wrote, nothing when it never ran
Wrote(res, io) ==
    IF res = "notfound" THEN [so |-> 0, se |-> 0] ELSE CmdWrites(io, lineno)

C12_CaptureIsThisCommands ==
    [][pc = "guard" /\ Len(dispatched') > Len(dispatched)
       => \A res \in {"ok", "fail", "notfound"}, io \in {"none", "ann", "both"},
             fatal \in BOOLEAN :
             ExecEffects(res, io, fatal)
             => /\ ReadFile("stdout", stdout', stderr')
                   = [from |-> "capture", data |-> Wrote(res, io).so]
                /\ ReadFile("stderr", stdout', stderr')
                   = [from |-> "capture", data |-> Wrote(res, io).se]]_vars

\* the command of line 1 wrote to both streams, the command of line 2 ran
\* and wrote nothing: the captures are empty
C12_Witness ==
    /\ pc = "line"
    /\ ~failed
    /\ lineno = 2
    /\ Len(dispatched) = 2
    /\ \A i \in 1..2 : dispatched[i].tbl = "ext" /\ dispatched[i].line = i
    /\ \E i \in 1..Len(log) : log[i].k = "out" /\ log[i].n = 1
    /\ \E i \in 1..Len(log) : log[i].k = "err" /\ log[i].n = 1
    /\ stdout = 0
    /\ stderr = 0

(***************************************************************************)
(* C13: if the cancellation scope becomes done while a foreground          *)
(* subprocess is still running, the subprocess is sent an interrupt (a     *)
(* kill when an interrupt cannot be delivered) and the foreground run      *)
(* returns the scope's cancellation error rather than the exit result of   *)
(* the process.                                                            *)
(***************************************************************************)
\* the signal of interruptProcess has been sent
Delivered(sig) == IF windows THEN "kill" \in sig ELSE "interrupt" \in sig

C14_StoppedAtReturn ==
    \A i \in 1..Len(cmds) :
        cmds[i].fg /\ cmds[i].ret = "ctx" => ~cmds[i].live

(***************************************************************************)
(* C15: once the scope of the run has been cancelled, every later attempt  *)
(* to run a foreground subprocess returns an error, and does not hang: its *)
(* wait can return as long as it has not.  This is to hold on every timing *)
(* and with or without a configured timeout.                               *)
(***************************************************************************)
C15_LateExecFails ==
    \A i \in 1..Len(cmds) :
        cmds[i].fg /\ cmds[i].late
        => /\ cmds[i].ret # "nil"
           /\ Pending(cmds[i]) => ENABLED CtxWaitDone(i)

(***************************************************************************)
(* C16: the configured timeout is one duration applied to the whole run    *)
(* through the run's single cancellable scope.  When it expires the scope  *)
(* of the run is done, and every subprocess still attached, foreground or  *)
(* background, is interrupted or killed.                                   *)
(***************************************************************************)
\* a deadline has passed: the scope of the run is done, and no process is
\* left running unsignalled by a wait that has returned
C16_TimeoutEndsTheRun ==
    (\E i \in 1..Len(cmds) : cmds[i].expired)
    => /\ ctxDone
       /\ \A j \in 1..Len(cmds) :
             cmds[j].st = "run" /\ ~Pending(cmds[j]) => cmds[j].sig # {}

Removed == BgIds(background) \ BgIds(background')

\* the directive of this step is an explicit wait
ExplicitWait ==
    /\ pc = "guard"
    /\ Len(dispatched') > Len(dispatched)
    /\ LookupCmd(dispatched'[Len(dispatched')].name).name = "wait"

PhaseOpen == mark > 0 /\ mark <= Len(log) /\ log[mark].k = "head"

\* this step is a phase marker that closes a phase with something logged
ClosedByMarker == pc = "line" /\ mark' # mark /\ Len(log) > mark

\* this step is the end of the script: the final wait returns
ClosedByEnd == pc = "finalwait" /\ finalOk'

\* what follows the heading after the close: the heading of the next phase,
\* or PASS, or nothing when the script stopped early
AfterClose ==
    IF ClosedByMarker THEN <<L("head", lineno', 0)>>
    ELSE IF stopped THEN <<>>
    ELSE <<L("PASS", lineno, 0)>>

C18_QuietCloseKeepsHeadingOnly ==
    [][~verbose /\ PhaseOpen /\ (ClosedByMarker \/ ClosedByEnd)
       => /\ SubSeq(log', 1, mark - 1) = SubSeq(log, 1, mark - 1)
          /\ Len(log') >= mark
          /\ log'[mark].k = "head"
          /\ log'[mark].n = log[mark].n
          /\ SubSeq(log', mark + 1, Len(log')) = AfterClose]_vars

\* quiet mode: the directive of line 2 was logged under the heading of
\* line 1, the marker of line 3 closed that phase and the end of the script
\* the next: the transcript is the two headings and PASS
C18_Witness ==
    /\ ~verbose
    /\ pc = "updates"
    /\ finalOk
    /\ Len(dispatched) = 1
    /\ dispatched[1].line = 2
    /\ Len(log) = 3
    /\ log[1].k = "head" /\ log[1].n = 1
    /\ log[2].k = "head" /\ log[2].n = 3
    /\ log[3].k = "PASS"

(***************************************************************************)
(* C19: closing a phase always appends an elapsed-time suffix to the       *)
(* heading of that phase, in quiet and in verbose mode, also for a phase   *)
(* in which nothing was logged after its heading.                          *)
(***************************************************************************)
\* as stated, read when every phase has been closed: each heading of the
\* flushed transcript carries a suffix
C19_EveryHeadingTimed ==
    pc = "done" => \A i \in 1..Len(log) : log[i].k = "head" => log[i].x >= 1

\* this step is a phase marker met with nothing logged since the heading
EmptyAtMarker == pc = "line" /\ mark' # mark /\ Len(log) = mark

\* this step is the flush of the teardown
ClosedByTeardown == pc = "bgwait" /\ pc' = "done"

\* the heading of line n carries x suffixes in lg
Suffixes(lg, n, x) ==
    \E j \in 1..Len(lg) : lg[j].k = "head" /\ lg[j].n = n /\ lg[j].x = x

\* amended: the heading of an open phase gets its one suffix when a marker
\* closes the phase with something logged, when the script ends, and at
\* the teardown; a marker that finds nothing logged since the heading adds
\* none, and none is added later
C19_HeadingTimedUnlessEmpty ==
    [][/\ PhaseOpen /\ started
          => /\ ClosedByMarker \/ ClosedByEnd \/ ClosedByTeardown
                => Suffixes(log', log[mark].n, 1)
             /\ EmptyAtMarker => Suffixes(log', log[mark].n, 0)
       /\ \A i \in 1..Len(log) :
             log[i].k = "head" /\ i # mark
             => \E j \in 1..Len(log') : log'[j] = log[i]
       /\ \A j \in 1..Len(log') : log'[j].k = "head" => log'[j].x <= 1]_vars

\* the flushed transcript of a script of two markers: the first heading has
\* no suffix, the second, closed by the end of the script, has one
C19_Witness ==
    /\ pc = "done"
    /\ lineno = 2
    /\ dispatched = <<>>
    /\ Suffixes(log, 1, 0)
    /\ Suffixes(log, 2, 1)

(***************************************************************************)
(* C20: in verbose mode nothing is ever removed from the transcript: every *)
(* line once logged is present, in order, in the flushed transcript, the   *)
(* only change being the elapsed-time suffix added to headings.            *)
(***************************************************************************)
\* the lines of a are the first lines of b, headings apart from a suffix
\* they may have gained
KeptIn(a, b) ==
    /\ Len(a) <= Len(b)
    /\ \A i \in 1..Len(a) :
          /\ b[i].k = a[i].k
          /\ b[i].n = a[i].n
          /\ IF a[i].k = "head" THEN b[i].x \in {a[i].x, a[i].x + 1}
             ELSE b[i].x = a[i].x

WritesPass == pc = "finalwait" /\ finalOk' /\ ~stopped

\* the lines that do not read as a workflow annotation
NotAnnotation(lg) == SelectSeq(lg, LAMBDA l : ~(l.k = "out" /\ l.x = 1))

Raised == FailCount(log') > FailCount(log)

\* the FAIL line and the annotation of the call
RaisedLine == log'[Len(log')]
RaisedAnnotation == annotations'[Len(annotations')]

\* the claim as stated: the number is that of a line being executed
C21_FailCarriesExecutingLine ==
    [][Raised => /\ RaisedLine.k = "FAIL"
                 /\ RaisedLine.n >= 1
                 /\ RaisedLine.n = lineno'
                 /\ pc \in {"line", "guard"}
                 /\ RaisedAnnotation.line = RaisedLine.n]_vars

\* the statement that holds: the FAIL line and the annotation carry
\* ts.lineno, the number of lines the loop has read (markers and blank
\* lines counted): the line being executed while the loop runs, 0 during
\* setup, the last line read after the loop
C21_FailCarriesLineno ==
    [][Raised => /\ RaisedLine.k = "FAIL"
                 /\ RaisedLine.n = lineno'
                 /\ Len(annotations') = Len(annotations) + 1
                 /\ RaisedAnnotation.line = RaisedLine.n
                 /\ pc \in {"line", "guard"} => RaisedLine.n >= 1
                 /\ pc \in {"setup", "hook"} => RaisedLine.n = 0]_vars

\* the second line of a script fails after a first line that is a marker
\* or blank, and both the FAIL line and the annotation say 2
C21_Witness ==
    /\ failed
    /\ lineno = 2
    /\ Len(dispatched) = 1
    /\ dispatched[1].line = 2
    /\ \E i \in 1..Len(log) : log[i].k = "FAIL" /\ log[i].n = 2
    /\ Len(annotations) = 1
    /\ annotations[1].line = 2

(***************************************************************************)
(* C22: each fatal failure prints exactly one annotation; its message has  *)
(* no raw newline and no raw carriage return, and is the escaped text of   *)
(* the transcript from the last line that reads "[stdout]" to the end, or  *)
(* of the whole transcript when it has no such line.                       *)
(***************************************************************************)
\* the positions at which the lines of a text start
LineStarts(text) ==
    {i \in 1..Len(text) : i = 1 \/ text[i - 1] = NL}

\* the line that starts at i, without its newline
LineAt(text, i) ==
    LET ends == {j \in i..Len(text) : text[j] = NL}
        e == IF ends = {} THEN Len(text) + 1
             ELSE CHOOSE j \in ends : \A k \in ends : j <= k
    IN  SubSeq(text, i, e - 1)

MarkerLines(text) == {i \in LineStarts(text) : LineAt(text, i) = mStdout}

FromLastMarker(text) ==
    IF MarkerLines(text) = {} THEN text
    ELSE SubSeq(text,
                CHOOSE i \in MarkerLines(text) :
                    \A j \in MarkerLines(text) : j <= i,
                Len(text))

\* s with every newline and carriage return written as its escape
Escaped(s, m) ==
    LET G[i \in 0..Len(s)] ==
            IF i = 0 THEN 0
            ELSE G[i - 1] + (IF s[i] \in {NL, CR} THEN 3 ELSE 1)
    IN  /\ Len(m) = G[Len(s)]
        /\ \A i \in 1..Len(s) :
              IF s[i] = NL
              THEN SubSeq(m, G[i - 1] + 1, G[i]) = <<"%", "0", "A">>
              ELSE IF s[i] = CR
              THEN SubSeq(m, G[i - 1] + 1, G[i]) = <<"%", "0", "D">>
              ELSE m[G[i]] = s[i]

C22_OneEscapedAnnotation ==
    [][/\ Len(annotations') = Len(annotations) + (IF Raised THEN 1 ELSE 0)
       /\ Raised =>
             \A text \in {LogString(log')}, msg \in {RaisedAnnotation.msg} :
                /\ \A i \in 1..Len(msg) : msg[i] \notin {NL, CR}
                /\ \A raw \in {FromLastMarker(text)} : Escaped(raw, msg)]_vars

\* a failure after a command had written output and an extension had then
\* logged a line with a carriage return: the message starts at the marker,
\* leaves out the echo before it and carries the escape of the return
C22_Witness ==
    /\ Len(annotations) = 1
    /\ \E i \in 1..(Len(log) - 1) : log[i].k = "echo" /\ log[i + 1].k = "out"
    /\ HasPrefix(annotations[1].msg, mStdout \o <<"%", "0", "A">>)
    /\ \E i \in 1..(Len(annotations[1].msg) - 2) :
          SubSeq(annotations[1].msg, i, i + 2) = <<"%", "0", "D">>

(***************************************************************************)
(* C23: the setup hook is called once per run, when the work directory     *)
(* exists, every file of the archive has been written into it and Cd is    *)
(* the work directory, and before any directive; the first directive finds *)
(* the variables and the directory the hook left; a hook that returns an   *)
(* error fails the run before any directive.                               *)
(***************************************************************************)
HookCalled == hookCalls' > hookCalls
FirstDirective == dispatched = <<>> /\ dispatched' # <<>>
HookFailed == pc = "hook" /\ failed'

SetupReturned == env # <<>>
PreserveMode == testWork \/ TestWork \/ WorkdirRoot
StartsWithEnv == Len(log) >= 2 /\ log[1].k = "env" /\ log[2].k = "blank"

C24_EnvDumpInEveryMode ==
    (SetupReturned /\ (verbose \/ PreserveMode)) => StartsWithEnv

\* what lines 427-433 do: the dump is there under -v and under the flag
EnvDumpKept == (SetupReturned /\ (verbose \/ testWork)) => StartsWithEnv

\* and in no other run
EnvDumpOnlyThen == (SetupReturned /\ ~(verbose \/ testWork)) => ~StartsWithEnv

(***************************************************************************)
(* C25: the root directory shared by the parallel scripts is removed at    *)
(* most once, never in a mode that keeps work directories, and only when   *)
(* every script has finished and its work directory is gone; each script   *)
(* decrements refCount at most once, in one atomic step, and once when it  *)
(* has finished in a mode that removes.                                    *)
(***************************************************************************)
RECURSIVE Sum(_, _, _)
Sum(f, field, n) == IF n = 0 THEN 0 ELSE f[n][field] + Sum(f, field, n - 1)

Finished(i) == subtests[i].at \in {"removed", "last", "done"}

C26_SiblingsDoNotInterfere ==
    /\ worlds[1].results = worlds[2].results
    /\ worlds[1].failed = worlds[2].failed

\* the sibling reaches the script through the entries of execCache only
InterferenceIsThroughExecCache ==
    (\A prog \in worlds[2].sibAsked : prog \in DOMAIN worlds[1].cache /\ worlds[1].cache[prog] = worlds[2].cache[prog])
        => C26_SiblingsDoNotInterfere

(***************************************************************************)
(* C27: applyScriptUpdates changes the data of every archive entry whose   *)
(* name has an update pending and nothing else of the archive: not the     *)
(* comment, not the number, order or names of the entries, not the data of *)
(* any other entry; the script file is written at most once in a run, and  *)
(* only with an update pending.                                            *)
(***************************************************************************)
Applying == pc = "updates" /\ pc' # "updates"
Written == writes' > writes
Rewritten == Written /\ Len(log') > Len(log)

SameBut(old, new, names) ==
    /\ new.comment = old.comment
    /\ Len(new.files) = Len(old.files)
    /\ \A i \in 1..Len(old.files) :
          /\ new.files[i].name = old.files[i].name
          /\ old.files[i].name \notin names =>
                new.files[i].data = old.files[i].data

C27_UpdatesTouchTheirEntriesOnly ==
    [][/\ writes' <= 1
       /\ Written => Applying /\ DOMAIN scriptUpdates # {}
       /\ ~Applying => archive' = archive \/ pc = "setup"
       /\ ~Applying => disk' = disk
       /\ Applying =>
             /\ SameBut(archive, archive', DOMAIN scriptUpdates)
             /\ DOMAIN scriptUpdates = {} =>
                   archive' = archive /\ disk' = disk /\ ~Written
             /\ Written =>
                   \A i \in 1..Len(archive.files) :
                      archive.files[i].name \in DOMAIN scriptUpdates =>
                         archive'.files[i].data \in
                            {scriptUpdates[archive.files[i].name],
                             Quote(scriptUpdates[archive.files[i].name])}
             /\ Rewritten =>
                   /\ disk' = archive'
                   /\ SameBut(disk, disk', DOMAIN scriptUpdates)]_vars

\* the file has been rewritten with both entries of "a" updated, one update
\* quoted, and "b" as it was
C27_Witness ==
    /\ writes = 1
    /\ Len(disk.files) = 3
    /\ disk.files[1] = File("a", 12)
    /\ disk.files[2] = File("b", 5)
    /\ disk.files[3] = File("a", 12)
    /\ disk.comment = "d"
    /\ pc = "deferred0"

(***************************************************************************)
(* C28: with an update pending whose name is in no entry of the archive,   *)
(* applyScriptUpdates ends the run (by the panic of line 576, or by the    *)
(* t.Fatal of line 566 when range reaches an update that cannot be quoted  *)
(* first) and the script file is not written, whatever else is pending.    *)
(***************************************************************************)
Unmatched == {n \in DOMAIN scriptUpdates : n \notin FileNames(archive)}
Unquotable == {n \in DOMAIN scriptUpdates : n \in FileNames(archive) /\ scriptUpdates[n] = 3}

InQuotes(text, k) == Cardinality({j \in 1..(k - 1) : text[j] = QUOTE}) % 2 = 1

\* the line up to the first comment sign outside quotes
Effective(text) ==
    IF \E k \in 1..Len(text) : text[k] = HASH /\ ~InQuotes(text, k)
    THEN SubSeq(text, 1, (CHOOSE k \in 1..Len(text) : text[k] = HASH /\ ~InQuotes(text, k) /\ \A j \in 1..(k - 1) : ~(text[j] = HASH /\ ~InQuotes(text, j))) - 1)
    ELSE text

OpenQuote(text) == InQuotes(Effective(text), Len(Effective(text)) + 1)

Gap(e, k) == e[k] \in {" ", TAB, CR} /\ ~InQuotes(e, k)

WordSpans(e) ==
    {sp \in (1..Len(e)) \X (1..Len(e)) :
        /\ sp[1] <= sp[2]
        /\ \A k \in sp[1]..sp[2] : ~Gap(e, k)
        /\ sp[1] = 1 \/ Gap(e, sp[1] - 1)
        /\ sp[2] = Len(e) \/ Gap(e, sp[2] + 1)}

NthSpan(e, n) == CHOOSE sp \in WordSpans(e) : Cardinality({o \in WordSpans(e) : o[1] < sp[1]}) = n - 1

\* the position of the k-th quote of a word, 0 before the first and one
\* past the end after the last
QuoteAt(raw, k) ==
    IF k = 0 THEN 0
    ELSE IF \E p \in 1..Len(raw) : raw[p] = QUOTE /\ Cardinality({j \in 1..p : raw[j] = QUOTE}) = k
    THEN CHOOSE p \in 1..Len(raw) : raw[p] = QUOTE /\ Cardinality({j \in 1..p : raw[j] = QUOTE}) = k
    ELSE Len(raw) + 1

Piece(raw, k) == SubSeq(raw, QuoteAt(raw, k) + 1, QuoteAt(raw, k + 1) - 1)

\* pieces 0, 2, 4, ... lie outside quotes and are expanded, the others lie
\* inside; an empty piece between a closing and an opening quote is a
\* doubled quote
RECURSIVE WordFrom(_, _, _, _)
WordFrom(raw, m, k, n) ==
    IF k > n THEN <<>>
    ELSE (IF k % 2 = 1 THEN Piece(raw, k)
          ELSE IF 0 < k /\ k < n /\ Piece(raw, k) = <<>> THEN <<QUOTE>>
          ELSE expand(Piece(raw, k), m)) \o WordFrom(raw, m, k + 1, n)

Word(raw, m) == WordFrom(raw, m, 0, Cardinality({p \in 1..Len(raw) : raw[p] = QUOTE}))

WordsOf(text, m) ==
    [n \in 1..Cardinality(WordSpans(Effective(text))) |->
        Word(SubSeq(Effective(text), NthSpan(Effective(text), n)[1], NthSpan(Effective(text), n)[2]), m)]

\* the step of run that hands a line to parse
Parsed ==
    /\ lineno' > lineno
    /\ ~(Len(log') > 0 /\ log'[Len(log')].k = "head" /\ log'[Len(log')].n = lineno')

C29_WordsOfALine ==
    [][(Parsed /\ ~OpenQuote(line')) =>
          /\ args' = WordsOf(line', envMap)
          /\ Len(args') = Len(parse(line', EmptyMap).args)
          /\ line' = <<"a", " ", QUOTE, "b", " ", "c", QUOTE, " ", "d">> =>
                args' = << <<"a">>, <<"b", " ", "c">>, <<"d">> >>
          /\ line' = <<QUOTE, "a", QUOTE, QUOTE, "b", QUOTE>> =>
                args' = << <<"a", QUOTE, "b">> >>
          /\ ~failed']_vars

\* one word of a piece outside quotes, a quoted variable left as it is and
\* a variable replaced by a value of two words
C29_Witness ==
    /\ line = <<"a", QUOTE, DOLLAR, "X", QUOTE, DOLLAR, "X">>
    /\ args = << <<"a", DOLLAR, "X", "v", " ", "w">> >>
    /\ pc = "guard"

(***************************************************************************)
(* C30: a line that ends inside quotes fails the run: parse does not       *)
(* return, the line is not echoed, no words come of it, and neither this   *)
(* line nor a later one runs a directive.                                  *)
(***************************************************************************)
C30_UnterminatedQuoteIsFatal ==
    [][/\ (Parsed /\ OpenQuote(line')) =>
             /\ failed'
             /\ stopped'
             /\ args' = args
             /\ dispatched' = dispatched
             /\ log'[Len(log')] = L("FAIL", lineno', 0)
             /\ \A i \in 1..Len(log') : ~(log'[i].k = "echo" /\ log'[i].n = lineno')
             /\ pc' = "updates"
       /\ failed => dispatched' = dispatched /\ args' = args /\ lineno' = lineno]_vars

\* the second line opens a quote that holds a comment sign and ends in it
C30_Witness ==
    /\ failed
    /\ lineno = 2
    /\ line = <<"a", " ", QUOTE, "b", " ", HASH, "c">>
    /\ Len(dispatched) = 1
    /\ dispatched[1].line = 1
    /\ args = << <<"a">> >>
    /\ pc = "updates"

(***************************************************************************)
(* C31: a comment sign outside quotes ends the words of a line: the word   *)
(* before it is complete and nothing from the sign on is read ("a # b c"   *)
(* gives a); inside quotes the sign is a character of the word; a line     *)
(* without words is neither echoed nor run.                                *)
(***************************************************************************)
RECURSIVE Flat(_)
Flat(words) == IF words = <<>> THEN <<>> ELSE Head(words) \o Flat(Tail(words))

Count(c, s) == Cardinality({k \in 1..Len(s) : s[k] = c})

C31_CommentEndsTheLine ==
    [][(Parsed /\ ~OpenQuote(line')) =>
          /\ args' = parse(Effective(line'), envMap).args
          /\ line' = <<"a", " ", HASH, " ", "b", " ", "c">> => args' = << <<"a">> >>
          /\ (\A k \in 1..Len(line') : line'[k] = HASH => InQuotes(line', k)) =>
                Count(HASH, Flat(args')) >= Count(HASH, line')
          /\ args' = <<>> => /\ log' = log
                             /\ pc' = "line"
                             /\ dispatched' = dispatched
                             /\ ~failed'
          /\ \A i \in 1..Len(dispatched') : \E j \in 1..Len(log') : log'[j].k = "echo" /\ log'[j].n = dispatched'[i].line]_vars

\* a word, a quoted comment sign, and a comment that holds a quote
C31_Witness ==
    /\ line = <<"a", " ", QUOTE, "b", HASH, QUOTE, " ", HASH, " ", QUOTE>>
    /\ args = << <<"a">>, <<"b", HASH>> >>
    /\ pc = "guard"

(***************************************************************************)
(* C32: RepeatableAttempt returns the response of a request that came back *)
(* without error and with status 200, 201 or 202, with a nil error, and    *)
(* goes on to another round after every other request; its only other     *)
(* return is a nil response with "all connection attempts failed", when    *)
(* the test of the loop fails.                                             *)
(***************************************************************************)
RepReturns == rep.at # "returned" /\ rep'.at = "returned"

C32_ReturnsTheGoodResponse ==
    [][/\ RepReturns =>
             \/ /\ rep'.ret.err = "nil"
                /\ rep'.ret.resp = rep'.last
                /\ rep'.ret.resp.n = rep'.sent
                /\ rep'.sent = rep.sent + 1
                /\ ~rep'.ret.resp.err
                /\ rep'.ret.resp.code \in {200, 201, 202}
             \/ /\ rep'.ret.err = "all connection attempts failed"
                /\ rep'.ret.resp = NoResponse
                /\ rep.at = "test"
                /\ rep.i >= MaxRepeat
                /\ rep'.sent = rep.sent
       /\ (rep.at = "do" /\ rep'.at # "do") =>
             (rep'.at = "returned" <=> (~rep'.last.err /\ rep'.last.code \in {200, 201, 202}))
       /\ rep.at = "returned" => rep'.ret = rep.ret /\ rep'.at = "returned"]_vars

\* a request answered 204 and then the response 202 returned
C32_Witness ==
    /\ rep.at = "returned"
    /\ ~rep.expired
    /\ rep.sent = 2
    /\ rep.ret.err = "nil"
    /\ rep.ret.resp = [n |-> 2, code |-> 202, err |-> FALSE]

(***************************************************************************)
(* C39: a call of RepeatableAttempt issues at most DefaultRepeatCount      *)
(* requests, whenever the function of the timer writes the counter.        *)
(***************************************************************************)
C39_AtMostRepeatCountRequests == rep.at # "none" => rep.sent <= MaxRepeat

\* the bound fails in a build with one counter and in a build with a
\* counter per round alike
BoundedInBuildsWithOneCounter == (rep.at # "none" /\ ~rep.perRound) => rep.sent <= MaxRepeat
BoundedInBuildsWithACounterPerRound == (rep.at # "none" /\ rep.perRound) => rep.sent <= MaxRepeat

\* as long as no timer has expired the loop is bounded
BoundedWhileNoTimerExpires == (rep.at # "none" /\ ~rep.expired) => rep.sent <= MaxRepeat

(***************************************************************************)
(* C40: UploadFile returns one outcome, and once it has returned neither   *)
(* of its goroutines waits at a send on errchan or respchan, which nobody  *)
(* receives from any more.                                                 *)
(***************************************************************************)
C40_NoGoroutineLeftBlocked ==
    up.at = "returned" => (up.w # "send" /\ up.r \notin {"sendErr", "sendResp"})

\* the outcome is a response or an error, never both, and it is what the
\* goroutine whose send was received had to send
OneOutcome ==
    up.at = "returned" =>
        /\ (up.ret.err = "nil") <=> (up.ret.resp \in UpCodes)
        /\ up.ret.err = "nil" => up.ret = up.res
        /\ up.ret.err \notin {"nil", "request"} => up.ret.err \in {up.werr, up.res.err}

\* a goroutine at a send after the return stays there
BlockedForGood ==
    [][(up.at = "returned" /\ up.w = "send" => up'.w = "send")
       /\ (up.at = "returned" /\ up.r \in {"sendErr", "sendResp"} => up'.r = up.r)]_vars

\* the file cannot be opened: the caller returns that error and the request
\* goroutine is left at its send of the response
OpenFailsAndTheRequestIsLeft ==
    up.at = "returned" /\ up.ret.err = "open" /\ up.r = "sendResp"

\* an upload without any error leaves nobody behind
GoodUploadLeavesNobody ==
    (up.at = "returned" /\ up.w = "done" /\ up.werr = "nil" /\ up.ret.err = "nil") =>
        up.r = "done"

(***************************************************************************)
(* C35: env and envMap agree.  Once setup has built them, and after every  *)
(* call of TestScript.Setenv, Getenv(K) is the value of the last entry for *)
(* K in the list env, the list that subprocesses are handed.               *)
(***************************************************************************)
C35_MapAgreesWithList ==
    pc \notin {"setup", "hook"} =>
        \A K \in ProbeKeys : LastValue(env, K) = TsGetenv(envMap, K)

\* the directives' calls of Setenv so far had keys without '='
TsKeysPlain ==
    \A i \in 1..Len(calls) : calls[i].api = "ts" => IndexEq(calls[i].key) = 0

\* with such keys the two agree, whatever the hook has put into Vars
MapAgreesWhileKeysArePlain ==
    (pc \notin {"setup", "hook"} /\ TsKeysPlain) =>
        \A K \in ProbeKeys : LastValue(env, K) = TsGetenv(envMap, K)

\* the two after setup and two plain calls of Setenv
PlainSetenvTwice ==
    /\ pc = "line"
    /\ TsKeysPlain
    /\ Len(calls) >= 2
    /\ calls[Len(calls)].api = "ts"
    /\ calls[Len(calls) - 1].api = "ts"

(***************************************************************************)
(* C36: a line may start with several guards.  They are evaluated one      *)
(* after the other; the first whose value is not the wanted one sends the  *)
(* loop to the next line, so that no later guard of the line is evaluated  *)
(* and no directive runs; a directive runs only when every guard of its    *)
(* line had the wanted value; a guard with no word after it is fatal       *)
(* before its predicate is evaluated.                                      *)
(***************************************************************************)
Matched(c) == c.out = "value" /\ c.ok = c.want

C36_EveryGuardMustMatch ==
    [][/\ (pc' = "guard" /\ nguards' > 0) => Matched(lastCond')
       /\ (pc' = "guard" /\ nguards' = 0) => lastCond' = NoCond
       /\ nguards' \in {0, nguards, nguards + 1}
       /\ nguards' = nguards + 1 => pc = "guard" /\ pc' = "guard" /\ lineno' = lineno
       /\ Len(dispatched') > Len(dispatched) =>
             /\ pc = "guard"
             /\ nguards > 0 => Matched(lastCond)
       /\ (pc = "guard" /\ lastCond'.out = "value" /\ ~Matched(lastCond')) =>
             /\ pc' = "line"
             /\ nguards' = 0
             /\ dispatched' = dispatched
             /\ ~failed'
       /\ (execCache' # execCache \/ asked' \notin {asked, NoAsk}) =>
             pc = "guard" /\ lastCond'.out # "missing"
       /\ (pc = "guard" /\ lastCond'.out = "missing") =>
             /\ failed'
             /\ log' = Append(log, L("FAIL", lineno, 0))
             /\ execCache' = execCache
             /\ asked' = asked
             /\ dispatched' = dispatched]_vars

\* two guards of one line have had the wanted value, the second one negated
C36_Witness ==
    /\ pc = "guard"
    /\ nguards = 2
    /\ lastCond.out = "value"
    /\ ~lastCond.want
    /\ ~lastCond.ok

\* a guard with nothing after it, behind a guard that matched
MissingAfterAMatch ==
    /\ failed
    /\ lastCond.out = "missing"
    /\ asked # NoAsk

(***************************************************************************)
(* C33: the teardown of run has one order on every way out.  The recorded  *)
(* updates are written to the script file first, then the cleanups run,    *)
(* last registered first, then what is left in ts.background is            *)
(* interrupted and waited for, and then the transcript is handed to t.Log, *)
(* once in a run.                                                          *)
(***************************************************************************)
Stage(p) ==
    CASE p = "updates" -> 1
      [] p \in {"deferred0", "deferred"} -> 2
      [] p = "bgwait" -> 3
      [] p = "done" -> 4
      [] OTHER -> 0

TeardownSignalled(ps) == {i \in 1..Len(ps) : "teardown" \in ps[i].sig}

C33_TeardownInOrder ==
    [][/\ Stage(pc') \in {Stage(pc), Stage(pc) + 1}
          \/ /\ pc \in {"setup", "hook"}
             /\ pc' = "deferred0"
             /\ DOMAIN scriptUpdates = {}
       /\ (writes' # writes \/ disk' # disk \/ archive' # archive) =>
             \/ pc = "setup"
             \/ /\ pc = "updates"
                /\ ran = <<>>
                /\ TeardownSignalled(procs) = {}
                /\ flushes = 0
       /\ ran' # ran =>
             /\ Stage(pc) = 2
             /\ \E f \in 1..MaxDefer : ran' = Append(ran, f)
             /\ IsPrefix(ran', Reverse(registered))
             /\ TeardownSignalled(procs) = {}
             /\ flushes = 0
       /\ TeardownSignalled(procs') # TeardownSignalled(procs) =>
             /\ Stage(pc) = 2
             /\ pc' = "bgwait"
             /\ ran = Reverse(registered)
             /\ TeardownSignalled(procs') = BgIds(background)
             /\ flushes = 0
       /\ flushes' # flushes =>
             /\ flushes = 0
             /\ flushes' = 1
             /\ pc = "bgwait"
             /\ ran = Reverse(registered)
             /\ BgIds(background) \subseteq TeardownSignalled(procs)
             /\ BgIds(background) \subseteq joined'
             /\ background' = <<>>
       /\ (pc' = "done") = (flushes' = 1)
       /\ (Stage(pc) >= 2 /\ made) => scriptUpdates' = scriptUpdates]_vars

\* a failed run that has written its updates, run two cleanups, drained a
\* background process and flushed
C33_Witness ==
    /\ pc = "done"
    /\ failed
    /\ writes = 1
    /\ Len(ran) = 2
    /\ TeardownSignalled(procs) # {}
    /\ joined # {}
    /\ flushes = 1

\* the same for a script that was stopped, and for one that passed
StoppedAndTornDown ==
    /\ pc = "done"
    /\ ~failed
    /\ stopAt > 0
    /\ writes = 1
    /\ Len(ran) = 2
    /\ flushes = 1

PassedAndTornDown ==
    /\ pc = "done"
    /\ HasPass(log)
    /\ writes = 1
    /\ Len(ran) = 2
    /\ joined # {}
    /\ flushes = 1

(***************************************************************************)
(* C34: where rewind truncates and where markTime slices, ts.mark is       *)
(* within the transcript, and where markTime rewrites (mark > 0 and        *)
(* ts.start set) the line that ends at the mark is the heading of the      *)
(* current phase, still without a suffix.  So a heading gets at most one   *)
(* suffix, only headings get one, and no heading is cut off.               *)
(***************************************************************************)
\* rewind and markTime are called by this step: by a phase marker with
\* something logged since the mark (456-459), after the final wait
\* (536-537), and markTime alone before the flush (419)
ClosesByMarker ==
    /\ pc = "line" /\ lineno' = lineno + 1 /\ mark' # mark
    /\ Len(log) > mark
ClosesAtEnd == pc = "finalwait" /\ pc' = "updates"
ClosesAtFlush == pc = "bgwait" /\ pc' = "done"

Heads(lg) == SelectSeq(lg, LAMBDA l : l.k = "head")
Untimed(lg) == [i \in 1..Len(lg) |-> L(lg[i].k, lg[i].n, 0)]

\* the line that ends at the mark is the heading of the current phase
MarkAtHeading(lg) ==
    /\ mark <= Len(lg)
    /\ lg[mark].k = "head"
    /\ lg[mark].x = 0
    /\ \A i \in (mark + 1)..Len(lg) : lg[i].k # "head"

C34_MarkStaysAtItsHeading ==
    [][/\ (ClosesByMarker \/ ClosesAtEnd) =>
             /\ mark <= Len(log)
             /\ (mark > 0 /\ started) => MarkAtHeading(log)
       /\ ClosesAtFlush => ((mark > 0 /\ started) => MarkAtHeading(log))
       /\ \A i \in 1..Len(log') : log'[i].k = "head" => log'[i].x <= 1
       /\ IsPrefix(Untimed(Heads(log)), Untimed(Heads(log')))
       /\ \A i \in 1..Len(Heads(log)) : Heads(log)[i].x <= Heads(log')[i].x
       /\ started' => (mark' > 0 /\ MarkAtHeading(log)')]_vars

\* quiet mode with -testwork, behind the dump of the environment: the
\* first phase was closed by the marker of the second and its details
\* truncated, the second by the end of the script; both headings have
\* their time
C34_Witness ==
    /\ ~verbose
    /\ testWork
    /\ pc = "done"
    /\ Len(log) = 5
    /\ log[1].k = "env"
    /\ log[3] = L("head", 1, 1)
    /\ log[4] = L("head", 3, 1)
    /\ log[5].k = "PASS"

(***************************************************************************)
(* C37: a fatal failure removes nothing that was logged since the heading  *)
(* of the current phase, in quiet mode as in verbose mode.  The flushed    *)
(* transcript has the echo of the line that failed, what the line logged,  *)
(* and its FAIL line; in quiet mode it has nothing of the phases that were *)
(* closed before but their headings.                                       *)
(***************************************************************************)
\* this step is a call of Fatalf by the directive of an echoed line
DirectiveFails == pc = "guard" /\ failed' /\ ~failed

\* the lines logged since the heading of the current phase
SinceHeading(lg) == SubSeq(lg, mark + 1, Len(lg))

C37_FailureKeepsThePhase ==
    [][/\ DirectiveFails =>
             /\ mark' = mark
             /\ mark <= Len(log)
             /\ IsPrefix(log, log')
             /\ log'[Len(log')] = L("FAIL", lineno, 0)
             /\ \E e \in (mark + 1)..Len(log) :
                   /\ log[e] = L("echo", lineno, 0)
                   /\ \A i \in (e + 1)..(Len(log') - 1) : log'[i].n = lineno
       /\ failed =>
             /\ mark' = mark
             /\ KeptIn(log, log')
             /\ SinceHeading(log) = SubSeq(log', mark + 1, Len(log))
       /\ (failed' /\ ~verbose) =>
             \A i \in 1..mark' : i <= Len(log') => log'[i].k \in {"head", "env", "blank"}]_vars

\* quiet mode: the directive of line 2 ran under the heading of line 1, the
\* marker of line 3 closed that phase, the directive of line 4 failed after
\* writing to both streams: the flushed transcript is the two headings, the
\* echo of line 4, its output and its FAIL line
C37_Witness ==
    /\ ~verbose
    /\ pc = "done"
    /\ failed
    /\ Len(dispatched) = 2
    /\ Len(log) = 7
    /\ log[1] = L("head", 1, 1)
    /\ log[2] = L("head", 3, 1)
    /\ log[3] = L("echo", 4, 0)
    /\ log[4].k = "out"
    /\ log[5].k = "err"
    /\ log[7] = L("FAIL", 4, 0)

(***************************************************************************)
(* C38: the pending standard input goes to one subprocess.  Every start,   *)
(* in the foreground or in the background, hands the pending input to the  *)
(* command and empties ts.stdin, so the next command reads empty input     *)
(* unless stdin was set again; a start leaves ts.env (the child alone gets *)
(* the PWD entry) and ts.cd as they are.                                   *)
(***************************************************************************)
Called == Len(cmds') = Len(cmds) + 1
NewCall == cmds'[Len(cmds')]

C38_StdinGoesToOneStart ==
    [][/\ Called =>
             /\ SubSeq(cmds', 1, Len(cmds)) = cmds
             /\ UNCHANGED <<env, envMap, cd>>
             /\ NewCall.st # "lookup" =>
                   /\ NewCall.input = stdin
                   /\ stdin' = 0
                   /\ NewCall.dir = cd
                   /\ Len(NewCall.env) = Len(env) + 1
                   /\ SubSeq(NewCall.env, 1, Len(env)) = env
                   /\ NewCall.env[Len(env) + 1] = <<"PWD", EQ, cd>>
             /\ NewCall.st = "lookup" => (NewCall.input = 0 /\ stdin' = stdin)
       /\ \A i, j \in 1..Len(cmds') :
             (i # j /\ cmds'[i].input # 0) => cmds'[i].input # cmds'[j].input
       /\ \A i \in 1..Len(cmds') : stdin' # 0 => cmds'[i].input # stdin'
       /\ (stdin' # stdin /\ stdin' # 0) => cmds' = cmds]_vars

\* a process in the background got the input of the first stdin directive
\* and the next process, in the foreground, empty input; the environment
\* and the directory were changed in between
C38_Witness ==
    /\ Len(cmds) = 2
    /\ ~cmds[1].fg /\ cmds[1].st = "run" /\ cmds[1].input = 1
    /\ cmds[2].fg /\ cmds[2].st = "run" /\ cmds[2].input = 0
    /\ cmds[1].dir # cmds[2].dir
    /\ Len(cmds[2].env) > Len(cmds[1].env)
    /\ stdin = 0

\* a command that could not be resolved leaves the input for the next one
InputWaitsForTheNextStart ==
    /\ Len(cmds) = 2
    /\ cmds[1].st = "lookup"
    /\ cmds[2].st = "run" /\ cmds[2].input = 1

====
